---------------------------- MODULE Spec2Model ----------------------------
(***************************************************************************)
(* Model of the mcn-qa-pytest harness: the two bulk wrappers               *)
(* (vpc_creation_wrapper.py, subnet_creation_wrapper.py) and the pytest-bdd *)
(* step functions they drive (test_vpc_creation.py,                         *)
(* test_subnet_creation.py).                                                *)
(*                                                                         *)
(* Python strings are sequences of one-character strings, so that strip,   *)
(* splitlines, split, startswith, int() and the f-string formats are       *)
(* computed the way the code computes them.  A Python dict is a function   *)
(* whose domain is its key set.  None is the record NoneV.                 *)
(***************************************************************************)
EXTENDS Integers, Sequences, FiniteSets, TLC

(***************************************************************************)
(* Bounds of the model.                                                    *)
(***************************************************************************)
\* longest cidr_blocks list a caller passes
MaxCidrs == 2
\* iterations of the name-generating loop that SpecNames follows
MaxIndex == 101
\* lines of a scenario's own field table
MaxLines == 2
\* largest max_retries make_vpc_request is called with
MaxRetries == 3

(***************************************************************************)
(* Strings.                                                                *)
(***************************************************************************)
\* str.isspace() for the characters of the model's alphabet
WS == {" ", "\n", "\t"}

RECURSIVE SkipWsFwd(_, _)
\* index of the first non-whitespace character at or after i (Len+1 if none)
SkipWsFwd(s, i) ==
  IF i > Len(s) \/ s[i] \notin WS THEN i ELSE SkipWsFwd(s, i + 1)

RECURSIVE SkipWsBack(_, _)
\* index of the last non-whitespace character at or before i (0 if none)
SkipWsBack(s, i) ==
  IF i < 1 \/ s[i] \notin WS THEN i ELSE SkipWsBack(s, i - 1)

\* str.strip()
Strip(s) ==
  LET a == SkipWsFwd(s, 1)
      b == SkipWsBack(s, Len(s))
  IN  IF a > b THEN <<>> ELSE SubSeq(s, a, b)

RECURSIVE Find(_, _, _)
\* index of the first occurrence of character c at or after i (0 if none)
Find(s, c, i) ==
  IF i > Len(s) THEN 0 ELSE IF s[i] = c THEN i ELSE Find(s, c, i + 1)

\* `c in s` for a one-character c
Contains(s, c) == Find(s, c, 1) # 0

RECURSIVE SplitLinesFrom(_, _)
SplitLinesFrom(s, i) ==
  IF i > Len(s) THEN <<>>
  ELSE LET nl == Find(s, "\n", i)
       IN  IF nl = 0 THEN << SubSeq(s, i, Len(s)) >>
           ELSE << SubSeq(s, i, nl - 1) >> \o SplitLinesFrom(s, nl + 1)

\* str.splitlines(): no empty last line after a final line break
SplitLines(s) == SplitLinesFrom(s, 1)

\* str.startswith(p)
StartsWith(s, p) == Len(s) >= Len(p) /\ SubSeq(s, 1, Len(p)) = p

RECURSIVE FindSub(_, _, _)
\* index of the first occurrence of the substring p at or after i (0 if none)
FindSub(s, p, i) ==
  IF i + Len(p) - 1 > Len(s) THEN 0
  ELSE IF SubSeq(s, i, i + Len(p) - 1) = p THEN i
  ELSE FindSub(s, p, i + 1)

RECURSIVE Join(_, _)
\* sep.join(parts)
Join(parts, sep) ==
  IF parts = <<>> THEN <<>>
  ELSE IF Len(parts) = 1 THEN parts[1]
  ELSE parts[1] \o sep \o Join(Tail(parts), sep)

Digits == <<"0", "1", "2", "3", "4", "5", "6", "7", "8", "9">>

RECURSIVE Decimal(_)
\* str(n) for n >= 0
Decimal(n) ==
  IF n < 10 THEN << Digits[n + 1] >>
  ELSE Decimal(n \div 10) \o << Digits[(n % 10) + 1] >>

RECURSIVE ZeroPad(_, _)
\* the format spec 0<width>d: zero-filled to at least `width` characters
ZeroPad(d, width) ==
  IF Len(d) >= width THEN d ELSE ZeroPad(<<"0">> \o d, width)

\* value of a decimal digit character, -1 for any other character
DigitVal(c) ==
  IF \E k \in 1..10 : Digits[k] = c
  THEN (CHOOSE k \in 1..10 : Digits[k] = c) - 1
  ELSE -1

RECURSIVE DigitsValue(_, _)
DigitsValue(s, acc) ==
  IF s = <<>> THEN acc ELSE DigitsValue(Tail(s), 10 * acc + DigitVal(Head(s)))

\* int(s): ok is FALSE where int() raises ValueError
ParseInt(s) ==
  LET t    == Strip(s)
      neg  == t # <<>> /\ Head(t) = "-"
      body == IF t # <<>> /\ Head(t) \in {"-", "+"} THEN Tail(t) ELSE t
  IN  IF body = <<>> \/ \E k \in 1..Len(body) : DigitVal(body[k]) < 0
      THEN [ok |-> FALSE, n |-> 0]
      ELSE [ok |-> TRUE,
            n  |-> IF neg THEN 0 - DigitsValue(body, 0) ELSE DigitsValue(body, 0)]

(***************************************************************************)
(* None and dicts.                                                         *)
(***************************************************************************)
NoneV == [some |-> FALSE, v |-> <<>>]
Some(x) == [some |-> TRUE, v |-> x]
\* truthiness of an Optional[str]
Truthy(o) == o.some /\ o.v # <<>>

\* d[k] = v
DictSet(d, k, v) == [x \in (DOMAIN d) \cup {k} |-> IF x = k THEN v ELSE d[x]]
\* d.setdefault(k, v)
SetDefault(d, k, v) == IF k \in DOMAIN d THEN d ELSE DictSet(d, k, v)
EmptyDict == <<>>

(***************************************************************************)
(* Name generation of the bulk wrappers.                                   *)
(***************************************************************************)
\* datetime.datetime.now(): the wall clocks a run may start at
Clocks ==
  { [Y |-> 2026, m |-> 11, d |-> 2, H |-> 9, M |-> 5, S |-> s] : s \in {7, 8} }

\* the fields written without padding
StrftimeUnpadded(c) ==
  Decimal(c.Y) \o Decimal(c.m) \o Decimal(c.d) \o Decimal(c.H) \o Decimal(c.M) \o Decimal(c.S)

\* strftime("%Y%m%d%H%M%S")
Strftime(c) ==
  ZeroPad(Decimal(c.Y), 4) \o ZeroPad(Decimal(c.m), 2) \o ZeroPad(Decimal(c.d), 2)
    \o ZeroPad(Decimal(c.H), 2) \o ZeroPad(Decimal(c.M), 2) \o ZeroPad(Decimal(c.S), 2)

\* a plausible slip: exactly two digits, the index cut to its last two
FormatIndexTwoDigits(i) == ZeroPad(Decimal(i % 100), 2)
\* f"{idx:02d}"
FormatIndex(i) == ZeroPad(Decimal(i), 2)

NamePrefix(w) == IF w = "vpc" THEN <<"b", "u", "l", "k", "-", "v", "p", "c", "-">> ELSE <<"b", "u", "l", "k", "-", "s", "u", "b", "n", "e", "t", "-">>
StackPrefix(w) == IF w = "vpc" THEN <<"b", "u", "l", "k", "-", "s", "t", "a", "c", "k", "-">> ELSE <<"b", "u", "l", "k", "-", "s", "u", "b", "n", "e", "t", "-", "s", "t", "a", "c", "k", "-">>

\* vpc_name / subnet_name of iteration i
ResourceName(w, t, i) == NamePrefix(w) \o t \o <<"-">> \o FormatIndex(i)
\* stack_name of iteration i
StackName(w, t, i) == StackPrefix(w) \o t \o <<"-">> \o FormatIndex(i)

(***************************************************************************)
(* State.                                                                  *)
(***************************************************************************)
VARIABLES
  \* --- the bulk wrapper (VPCBulkWrapper / SubnetBulkWrapper) ---
  wrapper,      \* "vpc" or "subnet": whose create_* method is running
  count,        \* argument count
  cidr_blocks,  \* argument cidr_blocks
  vpc_id,       \* argument vpc_id of create_subnets
  pc,           \* position in create_*: idle, loop, running, returned, sleep, done, raised
  ts,           \* the run's timestamp string
  idx,          \* loop index
  names,        \* the (name, stack name) pairs generated so far, in order
  log,          \* the per-iteration records the wrapper logged / printed
  sleeps,       \* number of time.sleep(1) calls taken
  launches,     \* number of subprocess.run calls started
  error,        \* the ValueError create_* raised, "" if none
  \* --- one pytest process running one scenario ---
  scenario,     \* "vpc", "subnet" or "none"
  environ,      \* os.environ of the process (the bulk variables only)
  infoEnabled,  \* whether the process logs at level INFO
  table,        \* the scenario's own field table, as the lines it was written from
  docstring,    \* the text of that table (the step's docstring argument)
  expected,     \* the scenario's expected status (feature file)
  spc,          \* next step of the scenario, or passed / failed / none
  mcn,          \* module global mcn
  vpc_data,     \* module global vpc_data
  step_data,    \* module global step_data (subnet steps)
  response,     \* response_data["response"] / response_data["resp"]
  stdout,       \* lines the process wrote
  failure,      \* the error that ended the scenario, "" if none
  sent,         \* the payloads the process posted, in order
  \* --- one call of make_vpc_request ---
  max_retries,  \* argument max_retries
  attempt,      \* loop variable attempt
  rpc,          \* position in make_vpc_request: idle, loop, returned
  outcomes,     \* what each requests.post so far returned or raised, in order
  waits,        \* the seconds of each time.sleep so far, in order
  api_response, \* the value make_vpc_request returned
  \* --- the health probe of a scenario ---
  health,       \* what requests.get of given_api_accessible returned or raised
  \* --- a delete scenario ---
  option_id,    \* the value of --vpc-id / --subnet-id (None when not given)
  deletes,      \* the URLs of the DELETE requests sent, in order
  \* --- several bulk runs of one wrapper ---
  now,          \* datetime.datetime.now() of the run, to the second
  runs          \* the earlier runs: the clock and the names of each

bulkVars == << wrapper, count, cidr_blocks, vpc_id, pc, ts, idx, names, log,
               sleeps, launches, error >>
procVars == << scenario, environ, infoEnabled, table, docstring, expected, spc, mcn,
               vpc_data, step_data, response, stdout, failure, sent >>
reqVars  == << max_retries, attempt, rpc, outcomes, waits, api_response >>
probeVars == << health >>
deleteVars == << option_id, deletes >>
runVars == << now, runs >>
vars == << bulkVars, procVars, reqVars, probeVars, deleteVars, runVars >>

(***************************************************************************)
(* JSON values and responses.                                              *)
(***************************************************************************)
JStr(x) == [t |-> "str", s |-> x, o |-> EmptyDict]
JNum == [t |-> "num", s |-> <<>>, o |-> EmptyDict]
JNull == [t |-> "null", s |-> <<>>, o |-> EmptyDict]
JArr == [t |-> "arr", s |-> <<>>, o |-> EmptyDict]
JObj(f) == [t |-> "obj", s |-> <<>>, o |-> f]
\* a body that response.json() cannot decode
NotJson == [t |-> "notjson", s |-> <<>>, o |-> EmptyDict]

NoResponse == [status_code |-> 0, json |-> JNull, present |-> FALSE]
Response(code, j) == [status_code |-> code, json |-> j, present |-> TRUE]

(***************************************************************************)
(* Payload values: a str, an int, or the dict {"Name": s} held by "tags".  *)
(***************************************************************************)
PStr(x) == [kind |-> "str", n |-> 0, s |-> x]
PInt(k) == [kind |-> "int", n |-> k, s |-> <<>>]
PTags(x) == [kind |-> "map", n |-> 0, s |-> x]

\* the keys of the field tables and of the request payload
Keys ==
  [ cidrBlock |-> <<"c", "i", "d", "r", "B", "l", "o", "c", "k">>,
    cloudAccountId |-> <<"c", "l", "o", "u", "d", "A", "c", "c", "o", "u", "n", "t", "I", "d">>,
    cloudProvider |-> <<"c", "l", "o", "u", "d", "P", "r", "o", "v", "i", "d", "e", "r">>,
    cloudRegion |-> <<"c", "l", "o", "u", "d", "R", "e", "g", "i", "o", "n">>,
    cloudResourceGroup |-> <<"c", "l", "o", "u", "d", "R", "e", "s", "o", "u", "r", "c", "e", "G", "r", "o", "u", "p">>,
    name |-> <<"n", "a", "m", "e">>,
    stackName |-> <<"s", "t", "a", "c", "k", "N", "a", "m", "e">>,
    tagName |-> <<"t", "a", "g", "N", "a", "m", "e">>,
    tags |-> <<"t", "a", "g", "s">>,
    subnetCidr |-> <<"s", "u", "b", "n", "e", "t", "C", "i", "d", "r">>,
    vpcId |-> <<"v", "p", "c", "I", "d">> ]

\* os.getenv(k)
GetEnv(env, k) == IF k \in DOMAIN env THEN Some(env[k]) ELSE NoneV

\* int(mcn.get("aws_id", 1))
AccountDefault(m) == IF "aws_id" \in DOMAIN m THEN ParseInt(m["aws_id"]) ELSE [ok |-> TRUE, n |-> 1]

(***************************************************************************)
(* given_vpc_details.                                                      *)
(***************************************************************************)
Indent == <<" ", " ", " ", " ", " ", " ", " ", " ">>

\* the f-string table of a bulk iteration, before .strip()
BulkVpcTable(auto_name, auto_cidr, auto_stack) ==
  <<"\n">> \o Indent \o <<"c", "i", "d", "r", "B", "l", "o", "c", "k", "=">> \o auto_cidr
    \o <<"\n">> \o Indent \o <<"c", "l", "o", "u", "d", "A", "c", "c", "o", "u", "n", "t", "I", "d", "=", "1">>
    \o <<"\n">> \o Indent \o <<"c", "l", "o", "u", "d", "P", "r", "o", "v", "i", "d", "e", "r", "=", "a", "w", "s">>
    \o <<"\n">> \o Indent \o <<"c", "l", "o", "u", "d", "R", "e", "g", "i", "o", "n", "=", "u", "s", "-", "e", "a", "s", "t", "-", "1">>
    \o <<"\n">> \o Indent \o <<"c", "l", "o", "u", "d", "R", "e", "s", "o", "u", "r", "c", "e", "G", "r", "o", "u", "p", "=">>
    \o <<"\n">> \o Indent \o <<"n", "a", "m", "e", "=">> \o auto_name
    \o <<"\n">> \o Indent \o <<"s", "t", "a", "c", "k", "N", "a", "m", "e", "=">> \o auto_stack
    \o <<"\n">> \o Indent \o <<"t", "a", "g", "N", "a", "m", "e", "=">> \o auto_name
    \o <<"\n">> \o Indent

\* the table given_vpc_details parses: the bulk one when all three variables
\* are set and non-empty, the scenario's own otherwise
VpcTableText(env, doc) ==
  LET auto_name  == GetEnv(env, "VPC_BULK_NAME")
      auto_cidr  == GetEnv(env, "VPC_BULK_CIDR")
      auto_stack == GetEnv(env, "VPC_BULK_STACK")
  IN  IF Truthy(auto_name) /\ Truthy(auto_cidr) /\ Truthy(auto_stack)
      THEN Strip(BulkVpcTable(auto_name.v, auto_cidr.v, auto_stack.v))
      ELSE doc

\* key, val = (part.strip() for part in raw.split("=", 1))
SplitKeyVal(raw) ==
  LET e == Find(raw, "=", 1)
  IN  [key |-> Strip(SubSeq(raw, 1, e - 1)), val |-> Strip(SubSeq(raw, e + 1, Len(raw)))]

\* a plausible slip: a blank cloudAccountId read as 0, not as the default
AccountValueBlankZero(val, m) ==
  IF val # <<>> THEN ParseInt(val) ELSE [ok |-> TRUE, n |-> 0]
\* int(val) if val else int(mcn.get("aws_id", 1))
AccountValue(val, m) == IF val # <<>> THEN ParseInt(val) ELSE AccountDefault(m)

\* case "tagName": vpc_data.setdefault("tags", {})["Name"] = val
\* (item assignment on a str raises TypeError)
CaseTagName(st, val) ==
  IF Keys.tags \in DOMAIN st.data /\ st.data[Keys.tags].kind # "map"
  THEN [st EXCEPT !.err = "TypeError"]
  ELSE [st EXCEPT !.data = DictSet(st.data, Keys.tags, PTags(val))]

\* one pass of the loop body (the match on key) for a line that holds "=";
\* st = [err, data, mcn]
VpcLine(st, raw) ==
  LET kv  == SplitKeyVal(raw)
      key == kv.key
      val == kv.val
  IN  IF key = Keys.cloudAccountId THEN
        LET p == AccountValue(val, st.mcn)
        IN  IF p.ok THEN [st EXCEPT !.data = DictSet(st.data, key, PInt(p.n))]
            ELSE [st EXCEPT !.err = "ValueError"]
      ELSE IF key = Keys.tagName THEN CaseTagName(st, val)
      ELSE IF key = Keys.cloudResourceGroup /\ val = <<>> THEN
        [st EXCEPT !.data = DictSet(st.data, key, PStr(<<>>))]
      ELSE IF key = Keys.cloudProvider THEN
        [st EXCEPT !.data = DictSet(st.data, key,
                                    PStr(IF val # <<>> THEN val ELSE <<"a", "w", "s">>))]
      ELSE IF key = Keys.cloudRegion THEN
        [st EXCEPT !.data = DictSet(st.data, key, PStr(val)),
                   !.mcn = DictSet(st.mcn, "vpc_region", val)]
      ELSE [st EXCEPT !.data = DictSet(st.data, key, PStr(val))]

RECURSIVE VpcLines(_, _, _)
\* the for loop over the lines, stopped by the first exception
VpcLines(st, lines, i) ==
  IF i > Len(lines) \/ st.err # "" THEN st
  ELSE IF ~Contains(lines[i], "=") THEN VpcLines(st, lines, i + 1)
  ELSE VpcLines(VpcLine(st, lines[i]), lines, i + 1)

\* the four setdefault calls and the vpc_region write that follow the loop
VpcDefaults(st) ==
  LET acc == AccountDefault(st.mcn)
  IN  IF ~acc.ok   \* the default is computed before setdefault looks
      THEN [st EXCEPT !.err = "ValueError"]
      ELSE
        LET d1 == SetDefault(st.data, Keys.cloudAccountId, PInt(acc.n))
            d2 == SetDefault(d1, Keys.cloudProvider, PStr(<<"a", "w", "s">>))
            d3 == SetDefault(d2, Keys.cloudResourceGroup, PStr(<<>>))
            d4 == SetDefault(d3, Keys.cloudRegion, PStr(<<"u", "s", "-", "e", "a", "s", "t", "-", "1">>))
        IN  [st EXCEPT !.data = d4,
                       !.mcn = DictSet(st.mcn, "vpc_region", d4[Keys.cloudRegion].s)]

\* given_vpc_details(docstring) run with module global mcn = m:
\* [err, data, mcn] where data is vpc_data after the step
GivenVpcDetails(env, doc, m) ==
  LET text  == VpcTableText(env, doc)
      lines == SplitLines(Strip(text))
      st0   == [err |-> "", data |-> EmptyDict, mcn |-> m]
      st1   == VpcLines(st0, lines, 1)
      st2   == IF st1.err # "" THEN st1 ELSE VpcDefaults(st1)
  IN  IF st2.err # "" THEN st2
      ELSE IF DOMAIN st2.data = {} THEN [st2 EXCEPT !.err = "AssertionError: VPC details table was empty"]
      ELSE st2

(***************************************************************************)
(* given_subnet_details.                                                   *)
(***************************************************************************)
\* the f-string table of a bulk subnet iteration, before .strip()
BulkSubnetTable(auto_vpc_id, auto_cidr, auto_name, auto_stack) ==
  <<"\n">> \o Indent \o <<"c", "l", "o", "u", "d", "A", "c", "c", "o", "u", "n", "t", "I", "d", "=", "1">>
    \o <<"\n">> \o Indent \o <<"c", "l", "o", "u", "d", "P", "r", "o", "v", "i", "d", "e", "r", "=", "a", "w", "s">>
    \o <<"\n">> \o Indent \o <<"c", "l", "o", "u", "d", "R", "e", "g", "i", "o", "n", "=", "u", "s", "-", "e", "a", "s", "t", "-", "1">>
    \o <<"\n">> \o Indent \o <<"c", "l", "o", "u", "d", "R", "e", "s", "o", "u", "r", "c", "e", "G", "r", "o", "u", "p", "=">>
    \o <<"\n">> \o Indent \o <<"s", "t", "a", "c", "k", "N", "a", "m", "e", "=">> \o auto_stack
    \o <<"\n">> \o Indent \o <<"s", "u", "b", "n", "e", "t", "C", "i", "d", "r", "=">> \o auto_cidr
    \o <<"\n">> \o Indent \o <<"v", "p", "c", "I", "d", "=">> \o auto_vpc_id
    \o <<"\n">> \o Indent
    \o <<"\n">> \o Indent \o <<"n", "a", "m", "e", "=">> \o auto_name
    \o <<"\n">> \o Indent

SubnetTableText(env, doc) ==
  LET auto_vpc_id == GetEnv(env, "SUBNET_BULK_VPC_ID")
      auto_cidr   == GetEnv(env, "SUBNET_BULK_CIDR")
      auto_name   == GetEnv(env, "SUBNET_BULK_NAME")
      auto_stack  == GetEnv(env, "SUBNET_BULK_STACK")
  IN  IF Truthy(auto_vpc_id) /\ Truthy(auto_cidr) /\ Truthy(auto_name) /\ Truthy(auto_stack)
      THEN Strip(BulkSubnetTable(auto_vpc_id.v, auto_cidr.v, auto_name.v, auto_stack.v))
      ELSE doc

\* the loop body: int(val) for cloudAccountId, the string otherwise
SubnetLine(st, raw) ==
  LET kv == SplitKeyVal(raw)
  IN  IF kv.key = Keys.cloudAccountId THEN
        LET p == ParseInt(kv.val)
        IN  IF p.ok THEN [st EXCEPT !.data = DictSet(st.data, kv.key, PInt(p.n))]
            ELSE [st EXCEPT !.err = "ValueError"]
      ELSE [st EXCEPT !.data = DictSet(st.data, kv.key, PStr(kv.val))]

RECURSIVE SubnetLines(_, _, _)
SubnetLines(st, lines, i) ==
  IF i > Len(lines) \/ st.err # "" THEN st
  ELSE IF ~Contains(lines[i], "=") THEN SubnetLines(st, lines, i + 1)
  ELSE SubnetLines(SubnetLine(st, lines[i]), lines, i + 1)

\* given_subnet_details(docstring): [err, data, mcn], data is step_data after it
GivenSubnetDetails(env, doc, m) ==
  SubnetLines([err |-> "", data |-> EmptyDict, mcn |-> m],
              SplitLines(Strip(SubnetTableText(env, doc))), 1)

(***************************************************************************)
(* Identifier extraction.                                                  *)
(***************************************************************************)
IsDict(j) == j.t = "obj"
\* j is a dict whose key k holds a str that is non-empty after strip()
HasStr(j, k) == IsDict(j) /\ k \in DOMAIN j.o /\ j.o[k].t = "str" /\ Strip(j.o[k].s) # <<>>
HasDict(j, k) == IsDict(j) /\ k \in DOMAIN j.o /\ IsDict(j.o[k])

Found(x, how) == [some |-> TRUE, v |-> x, method |-> how]
NotFound == [some |-> FALSE, v |-> <<>>, method |-> ""]

\* one round of the fallback loop for `field`
FallbackField(body, field) ==
  IF HasStr(body, field) THEN Found(Strip(body.o[field].s), "fallback direct")
  ELSE IF HasDict(body, "data") /\ HasStr(body.o["data"], field)
       THEN Found(Strip(body.o["data"].o[field].s), "fallback nested")
       ELSE NotFound

\* a fallback that also takes a `data` that is itself a string
FallbackDataString(body) ==
  IF FallbackField(body, "id").some THEN FallbackField(body, "id")
  ELSE IF FallbackField(body, "vpcId").some THEN FallbackField(body, "vpcId")
  ELSE IF HasStr(body, "data") THEN Found(Strip(body.o["data"].s), "fallback 'data'")
  ELSE NotFound

\* the `case dict() as body` branch: the loop over ("id", "vpcId")
Fallback(body) ==
  IF FallbackField(body, "id").some THEN FallbackField(body, "id")
  ELSE FallbackField(body, "vpcId")

\* the nested patterns tried before the top-level ones
ExtractVpcIdNestedFirst(j) ==
  IF HasDict(j, "data") /\ HasStr(j.o["data"], "id")
       THEN Found(Strip(j.o["data"].o["id"].s), "nested 'data.id' field")
  ELSE IF HasDict(j, "data") /\ HasStr(j.o["data"], "vpcId")
       THEN Found(Strip(j.o["data"].o["vpcId"].s), "nested 'data.vpcId' field")
  ELSE IF HasStr(j, "id") THEN Found(Strip(j.o["id"].s), "direct 'id' field")
  ELSE IF HasStr(j, "vpcId") THEN Found(Strip(j.o["vpcId"].s), "direct 'vpcId' field")
  ELSE NotFound

\* the four mapping patterns of the match on resp_json, in their order
DirectPatterns(j) ==
  IF HasStr(j, "id") THEN Found(Strip(j.o["id"].s), "direct 'id' field")
  ELSE IF HasStr(j, "vpcId") THEN Found(Strip(j.o["vpcId"].s), "direct 'vpcId' field")
  ELSE IF HasDict(j, "data") /\ HasStr(j.o["data"], "id")
       THEN Found(Strip(j.o["data"].o["id"].s), "nested 'data.id' field")
  ELSE IF HasDict(j, "data") /\ HasStr(j.o["data"], "vpcId")
       THEN Found(Strip(j.o["data"].o["vpcId"].s), "nested 'data.vpcId' field")
  ELSE NotFound

\* the match on resp_json in then_body_contains_vpc_id
ExtractVpcId(j) ==
  IF DirectPatterns(j).some THEN DirectPatterns(j)
  ELSE IF IsDict(j) THEN Fallback(j)
  ELSE NotFound

\* `key in body` of then_extract_subnet: a key test on a dict, a substring
\* test on a str, an element test on a list; "TypeError" on a number or None
KeyIn(body, key, keytext) ==
  IF body.t = "obj" THEN IF key \in DOMAIN body.o THEN "yes" ELSE "no"
  ELSE IF body.t = "str" THEN IF FindSub(body.s, keytext, 1) # 0 THEN "yes" ELSE "no"
  ELSE IF body.t = "arr" THEN "no"
  ELSE "TypeError"

\* the value the `or` of body[key].get("subnetId") or body[key].get("id") yields,
\* reduced to what `assert subnet_id` sees: the first truthy one, else falsy
NestedSubnetId(d) ==
  LET truthy(k) == k \in DOMAIN d.o /\
                     \/ d.o[k].t = "str" /\ d.o[k].s # <<>>
                     \/ d.o[k].t = "num"
                     \/ d.o[k].t = "obj" /\ DOMAIN d.o[k].o # {}
  IN  IF truthy("subnetId") THEN [err |-> "", truthy |-> TRUE, v |-> d.o["subnetId"].s]
      ELSE IF truthy("id") THEN [err |-> "", truthy |-> TRUE, v |-> d.o["id"].s]
      ELSE [err |-> "", truthy |-> FALSE, v |-> <<>>]

RECURSIVE SubnetIdLoop(_, _)
\* the loop over ("subnetId", "id", "data"), from position i of that tuple
SubnetIdLoop(body, i) ==
  LET keys  == <<"subnetId", "id", "data">>
      texts == << <<"s", "u", "b", "n", "e", "t", "I", "d">>, <<"i", "d">>, <<"d", "a", "t", "a">> >>
  IN  IF i > 3 THEN [err |-> "", truthy |-> FALSE, v |-> <<>>]
      ELSE LET has == KeyIn(body, keys[i], texts[i])
           IN  IF has = "TypeError" THEN [err |-> "TypeError", truthy |-> FALSE, v |-> <<>>]
               ELSE IF has = "no" THEN SubnetIdLoop(body, i + 1)
               ELSE IF body.t = "str"   \* body[key] on a str
                    THEN [err |-> "TypeError", truthy |-> FALSE, v |-> <<>>]
               ELSE IF body.o[keys[i]].t = "str"
                    THEN [err |-> "", truthy |-> body.o[keys[i]].s # <<>>, v |-> body.o[keys[i]].s]
               ELSE IF body.o[keys[i]].t = "obj" THEN NestedSubnetId(body.o[keys[i]])
               ELSE SubnetIdLoop(body, i + 1)

\* then_extract_subnet on a decoded body
ExtractSubnetId(body) == SubnetIdLoop(body, 1)

(***************************************************************************)
(* What the feature files and the service supply.                          *)
(***************************************************************************)
\* the field table of the VPC scenario in vpc_create.feature
VpcFeatureTable ==
  <<"c", "i", "d", "r", "B", "l", "o", "c", "k", "=", "1", "0", ".", "0", ".", "0", ".", "0", "/", "1", "6", "\n", "c", "l", "o", "u", "d", "A", "c", "c", "o", "u", "n", "t", "I", "d", "=", "1", "\n", "c", "l", "o", "u", "d", "P", "r", "o", "v", "i", "d", "e", "r", "=", "a", "w", "s", "\n", "c", "l", "o", "u", "d", "R", "e", "g", "i", "o", "n", "=", "u", "s", "-", "e", "a", "s", "t", "-", "1", "\n", "n", "a", "m", "e", "=", "t", "e", "s", "t", "-", "v", "p", "c", "\n", "s", "t", "a", "c", "k", "N", "a", "m", "e", "=", "s", "t", "a", "c", "k", "-", "1">>
\* the field table of the subnet scenario in subnet_create.feature
SubnetFeatureTable ==
  <<"c", "l", "o", "u", "d", "A", "c", "c", "o", "u", "n", "t", "I", "d", "=", "1", "\n", "c", "l", "o", "u", "d", "P", "r", "o", "v", "i", "d", "e", "r", "=", "a", "w", "s", "\n", "c", "l", "o", "u", "d", "R", "e", "g", "i", "o", "n", "=", "u", "s", "-", "e", "a", "s", "t", "-", "1", "\n", "c", "l", "o", "u", "d", "R", "e", "s", "o", "u", "r", "c", "e", "G", "r", "o", "u", "p", "=", "\n", "s", "t", "a", "c", "k", "N", "a", "m", "e", "=", "s", "t", "a", "c", "k", "-", "1", "\n", "s", "u", "b", "n", "e", "t", "C", "i", "d", "r", "=", "1", "0", ".", "0", ".", "1", ".", "0", "/", "2", "4", "\n", "v", "p", "c", "I", "d", "=", "v", "p", "c", "-", "0", "1", "2", "3", "4", "5", "6", "7", "8", "9">>
\* the statuses the creation scenarios, which a bulk run launches, may declare
\* as expected
ExpectedStatuses == {200, 201}
\* the statuses any scenario of the feature files may declare as expected
DeclaredStatuses == ExpectedStatuses \cup {400, 404, 503}
\* w = "none": the scenario is run on its own, not by a bulk wrapper
ScenarioStatuses(w) == IF w = "none" THEN DeclaredStatuses ELSE ExpectedStatuses

\* bodies the service may answer with
Bodies ==
  << JObj([id |-> JStr(<<"v", "p", "c", "-", "0", "1", "2", "3", "4", "5", "6", "7", "8", "9">>)]),
     JObj([data |-> JObj([vpcId |-> JStr(<<" ", "v", "p", "c", "-", "a", "b", "c", " ">>)])]),
     JObj([id |-> JStr(<<"s", "u", "b", "n", "e", "t", "-", "1">>), message |-> JStr(<<"o", "k">>)]),
     JObj(EmptyDict),
     NotJson >>
Statuses == <<200, 500>>

(***************************************************************************)
(* The steps of a scenario, run by one pytest process.                     *)
(***************************************************************************)
Fail(why) == /\ spc' = "failed"
             /\ failure' = why

\* logger.info(line): written only at level INFO
Info(out, line) == IF infoEnabled THEN Append(out, line) ELSE out

\* @given("I have a registered AWS account")
given_registered_aws_account ==
  /\ scenario = "vpc"
  /\ spc = "given_account"
  /\ mcn' = DictSet(mcn, "aws_id", <<"1">>)
  /\ spc' = "given_details"
  /\ UNCHANGED << scenario, environ, infoEnabled, table, docstring, expected, vpc_data,
                  step_data, response, stdout, failure, sent >>
  /\ UNCHANGED << bulkVars, reqVars, probeVars, deleteVars, runVars >>

\* @given("the VPC details are:")
given_vpc_details ==
  /\ scenario = "vpc"
  /\ spc = "given_details"
  /\ LET st == GivenVpcDetails(environ, docstring, mcn)
     IN  /\ vpc_data' = st.data
         /\ mcn' = st.mcn
         /\ IF st.err # "" THEN Fail(st.err)
            ELSE spc' = "when_post" /\ failure' = failure
  /\ UNCHANGED << scenario, environ, infoEnabled, table, docstring, expected, step_data,
                  response, stdout, sent >>
  /\ UNCHANGED << bulkVars, reqVars, probeVars, deleteVars, runVars >>

\* @when("I send a POST request to create a VPC on AWS")
when_post_create_vpc ==
  /\ scenario = "vpc"
  /\ spc = "when_post"
  /\ sent' = Append(sent, vpc_data)
  /\ \/ \E b \in 1..Len(Bodies), c \in 1..Len(Statuses) :
          /\ response' = Response(Statuses[c], Bodies[b])
          /\ spc' = "then_status"
          /\ failure' = failure
     \/ /\ response' = response      \* requests.post raised; the step re-raises
        /\ Fail("RequestException")
  /\ UNCHANGED << scenario, environ, infoEnabled, table, docstring, expected, mcn, vpc_data,
                  step_data, stdout >>
  /\ UNCHANGED << bulkVars, reqVars, probeVars, deleteVars, runVars >>

\* the diagnostic _assert_status fails with for a status that is not the expected one
StatusDiagnostic(actual) ==
  IF actual = 400 THEN "Bad Request (400)"
  ELSE IF actual = 401 THEN "Unauthorized (401)"
  ELSE IF actual = 403 THEN "Forbidden (403)"
  ELSE IF actual = 404 THEN "Not Found (404)"
  ELSE IF actual = 409 THEN "Conflict (409)"
  ELSE IF actual = 500 THEN "Internal Server Error (500)"
  ELSE IF actual >= 500 THEN "Server Error"
  ELSE "Expected status"

\* the bands tested before the match with `expected`
AssertStatusBandsFirst(actual, exp) ==
  IF actual \in {400, 401, 403, 404, 409} \/ actual >= 500 THEN StatusDiagnostic(actual)
  ELSE IF actual = exp THEN "" ELSE StatusDiagnostic(actual)

\* _assert_status(expected): "" when it passes, else the AssertionError;
\* `case code if code == expected` is the first case of the match
AssertStatus(actual, exp) ==
  IF actual = exp THEN "" ELSE StatusDiagnostic(actual)

\* @then("the AWS VPC creation API response should be {status_code:d}")
then_create_status ==
  /\ scenario = "vpc"
  /\ spc = "then_status"
  /\ \E status_code \in ScenarioStatuses(wrapper) :
       /\ expected' = status_code
       /\ IF AssertStatus(response.status_code, status_code) = ""
          THEN spc' = "then_id" /\ failure' = failure
          ELSE Fail(AssertStatus(response.status_code, status_code))
  /\ UNCHANGED << scenario, environ, infoEnabled, table, docstring, mcn, vpc_data,
                  step_data, response, stdout, sent >>
  /\ UNCHANGED << bulkVars, reqVars, probeVars, deleteVars, runVars >>

\* the line the step reports the id to the wrapper with
MarkerLine(v, m, d) ==
  <<"V", "P", "C", "_", "C", "R", "E", "A", "T", "E", "D", "|", "I", "D", "=">> \o v \o <<"|", "R", "E", "G", "I", "O", "N", "=">>
    \o (IF "vpc_region" \in DOMAIN m THEN m["vpc_region"] ELSE <<"u", "s", "-", "e", "a", "s", "t", "-", "1">>)
    \o <<"|", "N", "A", "M", "E", "=">> \o (IF Keys.name \in DOMAIN d THEN d[Keys.name].s ELSE <<"N", "/", "A">>)

\* logger.info(MarkerLine, flush=True): Logger.info hands its keyword arguments
\* to Logger._log, which takes no `flush`; at level INFO this raises TypeError,
\* below INFO the call returns at once and nothing is written
LogMarker(out, line) ==
  IF infoEnabled THEN [err |-> "TypeError", out |-> out] ELSE [err |-> "", out |-> out]

\* a decoder that takes every body for JSON
JsonRaisesNever(j) == FALSE

\* response.json() raises for a body that is no JSON text
JsonRaises(j) == j.t = "notjson"

\* @then("the AWS VPC creation API response body must contain a VPC ID")
then_body_contains_vpc_id ==
  /\ scenario = "vpc"
  /\ spc = "then_id"
  /\ IF JsonRaises(response.json)
     THEN /\ Fail("AssertionError: Response is not valid JSON")
          /\ UNCHANGED << mcn, stdout >>
     ELSE LET x == ExtractVpcId(response.json)
          IN  IF x.some /\ StartsWith(x.v, <<"v", "p", "c", "-">>)
              THEN LET m == DictSet(mcn, "aws_vpc_id", x.v)
                       o == Info(stdout, <<" ", "V", "P", "C", " ", "I", "D", ":", " ">> \o x.v)
                       r == LogMarker(o, MarkerLine(x.v, m, vpc_data))
                   IN  /\ mcn' = m
                       /\ stdout' = r.out
                       /\ IF r.err # "" THEN Fail(r.err)
                          ELSE spc' = "then_cleanup" /\ failure' = failure
              ELSE /\ IF x.some
                      THEN Fail("AssertionError: Found ID but it doesn't match expected VPC ID format")
                      ELSE Fail("AssertionError: VPC ID not found in response")
                   /\ UNCHANGED << mcn, stdout >>
  /\ UNCHANGED << scenario, environ, infoEnabled, table, docstring, expected, vpc_data,
                  step_data, response, sent >>
  /\ UNCHANGED << bulkVars, reqVars, probeVars, deleteVars, runVars >>

\* @then("cleanup any created AWS VPC resources")
then_cleanup_log ==
  /\ scenario = "vpc"
  /\ spc = "then_cleanup"
  /\ stdout' = IF "aws_vpc_id" \in DOMAIN mcn /\ mcn["aws_vpc_id"] # <<>>
               THEN Info(stdout, <<"C", "L", "E", "A", "N", "U", "P", "_", "R", "E", "Q", "U", "I", "R", "E", "D", "|", "V", "P", "C", "_", "I", "D", "=">> \o mcn["aws_vpc_id"]
                                   \o <<"|", "R", "E", "G", "I", "O", "N", "=">>
                                   \o (IF "vpc_region" \in DOMAIN mcn
                                       THEN mcn["vpc_region"] ELSE <<"u", "s", "-", "e", "a", "s", "t", "-", "1">>))
               ELSE stdout
  /\ spc' = "passed"
  /\ UNCHANGED << scenario, environ, infoEnabled, table, docstring, expected, mcn, vpc_data,
                  step_data, response, failure, sent >>
  /\ UNCHANGED << bulkVars, reqVars, probeVars, deleteVars, runVars >>

\* @given("the subnet details")
given_subnet_details ==
  /\ scenario = "subnet"
  /\ spc = "given_details"
  /\ LET st == GivenSubnetDetails(environ, docstring, mcn)
     IN  /\ step_data' = st.data
         /\ IF st.err # "" THEN Fail(st.err)
            ELSE spc' = "when_post" /\ failure' = failure
  /\ UNCHANGED << scenario, environ, infoEnabled, table, docstring, expected, mcn, vpc_data,
                  response, stdout, sent >>
  /\ UNCHANGED << bulkVars, reqVars, probeVars, deleteVars, runVars >>

\* @when("I send the subnet-creation request")
when_post_subnet ==
  /\ scenario = "subnet"
  /\ spc = "when_post"
  /\ sent' = Append(sent, step_data)
  /\ \/ \E b \in 1..Len(Bodies), c \in 1..Len(Statuses) :
          /\ response' = Response(Statuses[c], Bodies[b])
          /\ spc' = "then_status"
          /\ failure' = failure
     \/ /\ response' = response
        /\ Fail("RequestException")
  /\ UNCHANGED << scenario, environ, infoEnabled, table, docstring, expected, mcn, vpc_data,
                  step_data, stdout >>
  /\ UNCHANGED << bulkVars, reqVars, probeVars, deleteVars, runVars >>

\* @then("the subnet API must return {status:d}")
then_status ==
  /\ scenario = "subnet"
  /\ spc = "then_status"
  /\ \E status \in ScenarioStatuses(wrapper) :
       /\ expected' = status
       /\ IF response.status_code = status
          THEN spc' = "then_id" /\ failure' = failure
          ELSE Fail("AssertionError: Expected status")
  /\ UNCHANGED << scenario, environ, infoEnabled, table, docstring, mcn, vpc_data,
                  step_data, response, stdout, sent >>
  /\ UNCHANGED << bulkVars, reqVars, probeVars, deleteVars, runVars >>

\* @then("the response contains the created subnet id")
then_extract_subnet ==
  /\ scenario = "subnet"
  /\ spc = "then_id"
  /\ IF JsonRaises(response.json)
     THEN Fail("AssertionError: Non-JSON response") /\ stdout' = stdout
     ELSE LET x == ExtractSubnetId(response.json)
          IN  IF x.err # "" THEN Fail(x.err) /\ stdout' = stdout
              ELSE IF ~x.truthy
              THEN Fail("AssertionError: Subnet ID not found") /\ stdout' = stdout
              ELSE /\ stdout' = Info(stdout, <<" ", "S", "u", "b", "n", "e", "t", " ", "c", "r", "e", "a", "t", "e", "d", ":", " ">> \o x.v)
                   /\ spc' = "passed" /\ failure' = failure
  /\ UNCHANGED << scenario, environ, infoEnabled, table, docstring, expected, mcn, vpc_data,
                  step_data, response, sent >>
  /\ UNCHANGED << bulkVars, reqVars, probeVars, deleteVars, runVars >>

Steps ==
  \/ given_registered_aws_account
  \/ given_vpc_details
  \/ when_post_create_vpc
  \/ then_create_status
  \/ then_body_contains_vpc_id
  \/ then_cleanup_log
  \/ given_subnet_details
  \/ when_post_subnet
  \/ then_status
  \/ then_extract_subnet

(***************************************************************************)
(* The bulk wrappers: create_vpcs and create_subnets.                      *)
(***************************************************************************)
\* CIDR strings a caller may pass
Cidrs == { <<"1", "0", ".", "0", ".", "0", ".", "0", "/", "1", "6">>, <<" ", "1", "0", ".", "1", ".", "0", ".", "0", "/", "1", "6">>, <<>> }
\* vpc_id arguments a caller of create_subnets may pass
VpcIdArgs == { <<"v", "p", "c", "-", "0", "a", "1">>, <<"s", "u", "b", "n", "e", "t", "-", "1">> }

RECURSIVE ListsUpTo(_, _)
\* the sequences over S of length at most n
ListsUpTo(S, n) ==
  IF n = 0 THEN { <<>> }
  ELSE LET shorter == ListsUpTo(S, n - 1)
       IN  shorter \cup { Append(l, x) : l \in { m \in shorter : Len(m) = n - 1 }, x \in S }

\* a plausible slip: the upper check on count left out
PreconditionNoUpperCheck(w, n, cidrs, vid) ==
  IF n < 1 THEN "count must be positive"
  ELSE IF w = "subnet" /\ ~StartsWith(vid, <<"v", "p", "c", "-">>) THEN "vpc_id must start with 'vpc-'"
  ELSE ""
\* the checks that open create_vpcs / create_subnets: the ValueError raised, "" if none
Precondition(w, n, cidrs, vid) ==
  IF n < 1 THEN "count must be positive"
  ELSE IF n > Len(cidrs) THEN "count cannot exceed number of CIDR blocks supplied"
  ELSE IF w = "subnet" /\ ~StartsWith(vid, <<"v", "p", "c", "-">>) THEN "vpc_id must start with 'vpc-'"
  ELSE ""

\* a plausible slip: range(count - 1)
RangeHasNextOffByOne(i, n) == i < n - 1
\* for idx in range(count)
RangeHasNext(i, n) == i < n

\* the environment handed to the child of iteration i
ChildEnv(w, vid, cidr, name, stack) ==
  IF w = "vpc"
  THEN [VPC_BULK_CIDR |-> cidr, VPC_BULK_NAME |-> name, VPC_BULK_STACK |-> stack]
  ELSE [SUBNET_BULK_VPC_ID |-> vid, SUBNET_BULK_CIDR |-> cidr,
        SUBNET_BULK_NAME |-> name, SUBNET_BULK_STACK |-> stack]

Marker == <<"V", "P", "C", "_", "C", "R", "E", "A", "T", "E", "D", "|", "I", "D", "=">>

RECURSIVE FirstMarkerLine(_, _)
\* the first line that holds the marker, <<>> with found FALSE if none
FirstMarkerLine(lines, i) ==
  IF i > Len(lines) THEN [found |-> FALSE, line |-> <<>>]
  ELSE IF FindSub(lines[i], Marker, 1) # 0 THEN [found |-> TRUE, line |-> lines[i]]
  ELSE FirstMarkerLine(lines, i + 1)

\* the loop over result.stdout.splitlines(): vpc_id, None if no line has the marker
RecoverVpcId(out) ==
  LET hit == FirstMarkerLine(SplitLines(Join(out, <<"\n">>)), 1)
  IN  IF ~hit.found THEN NoneV
      ELSE LET at    == FindSub(hit.line, Marker, 1)
               parts == SubSeq(hit.line, at + Len(Marker), Len(hit.line))
               bar   == Find(parts, "|", 1)
           IN  Some(IF bar = 0 THEN parts ELSE SubSeq(parts, 1, bar - 1))

\* a plausible slip: "created successfully" only when an id was recovered
CreatedNeedsId(rc, vid) == rc = 0 /\ Truthy(vid)
\* whether the iteration is reported as created successfully
Created(rc, vid) == rc = 0

\* a plausible slip: subprocess.run(..., check=True), a failed child raises
AfterResultChecked(rc) == IF rc = 0 THEN "sleep" ELSE "raised"
\* where create_* goes once the result is reported: on to time.sleep(1)
AfterResult(rc) == "sleep"

\* what the wrapper reports for a finished child
Report(w, i, name, cidr, rc, out, why) ==
  LET vid == IF w = "vpc" /\ rc = 0 THEN RecoverVpcId(out) ELSE NoneV
  IN  [idx |-> i, name |-> name, cidr |-> cidr, returncode |-> rc,
       created |-> Created(rc, vid),
       failed  |-> rc # 0,
       vpc_id  |-> vid,
       warned  |-> w = "vpc" /\ rc = 0 /\ ~Truthy(vid),
       diag    |-> IF rc # 0 THEN why ELSE ""]

\* make_vpc_request has not been called
ReqIdle ==
  /\ max_retries = 0 /\ attempt = 0 /\ rpc = "idle"
  /\ outcomes = <<>> /\ waits = <<>> /\ api_response = NoneV

\* no health probe has run
ProbeIdle == health = NoneV

\* no run of a wrapper is followed over several calls
RunsIdle == now = NoneV /\ runs = <<>>

\* no delete scenario has run
DeleteIdle == option_id = NoneV /\ deletes = <<>>

ProcIdle ==
  /\ scenario = "none" /\ environ = EmptyDict /\ docstring = <<>> /\ table = <<>>
  /\ expected = 0 /\ spc = "none" /\ mcn = EmptyDict /\ vpc_data = EmptyDict
  /\ step_data = EmptyDict /\ response = NoResponse /\ stdout = <<>>
  /\ failure = "" /\ sent = <<>>

BulkIdle ==
  /\ wrapper = "none" /\ count = 0 /\ cidr_blocks = <<>> /\ vpc_id = <<>>
  /\ pc = "idle" /\ ts = <<>> /\ idx = 0 /\ names = <<>> /\ log = <<>>
  /\ sleeps = 0 /\ launches = 0 /\ error = ""

\* the call, up to the first iteration: the preconditions and the timestamp
Call(w, n, cidrs, vid, clock) ==
  /\ pc = "idle"
  /\ wrapper' = w /\ count' = n /\ cidr_blocks' = cidrs /\ vpc_id' = vid
  /\ LET e == Precondition(w, n, cidrs, vid)
     IN  IF e # ""
         THEN pc' = "raised" /\ error' = e /\ ts' = ts
         ELSE pc' = "loop" /\ error' = error /\ ts' = Strftime(clock)
  /\ UNCHANGED << idx, names, log, sleeps, launches >>
  /\ UNCHANGED << procVars, reqVars, probeVars, deleteVars, runVars >>

\* VPCBulkWrapper.create_vpcs(count, cidr_blocks)
create_vpcs ==
  \E n \in 0..(MaxCidrs + 1), cidrs \in ListsUpTo(Cidrs, MaxCidrs), clock \in Clocks :
    Call("vpc", n, cidrs, <<>>, clock)

\* SubnetBulkWrapper.create_subnets(vpc_id, count, cidr_blocks)
create_subnets ==
  \E n \in 0..(MaxCidrs + 1), cidrs \in ListsUpTo(Cidrs, MaxCidrs), clock \in Clocks,
     vid \in VpcIdArgs :
    Call("subnet", n, cidrs, vid, clock)

\* the head of an iteration: the names, the environment, subprocess.run starts
Launch ==
  /\ pc = "loop"
  /\ RangeHasNext(idx, count)
  /\ LET name  == ResourceName(wrapper, ts, idx)
         stack == StackName(wrapper, ts, idx)
         cidr  == cidr_blocks[idx + 1]
     IN  /\ names' = Append(names, [name |-> name, stack |-> stack])
         /\ environ' = ChildEnv(wrapper, vpc_id, cidr, name, stack)
  /\ launches' = launches + 1
  /\ pc' = "running"
  \* a fresh pytest process running the one scenario
  /\ scenario' = wrapper
  /\ docstring' = IF wrapper = "vpc" THEN VpcFeatureTable ELSE SubnetFeatureTable
  /\ expected' = 0
  /\ spc' = IF wrapper = "vpc" THEN "given_account" ELSE "given_details"
  /\ mcn' = EmptyDict /\ vpc_data' = EmptyDict /\ step_data' = EmptyDict
  /\ response' = NoResponse /\ stdout' = <<>> /\ failure' = "" /\ sent' = <<>>
  /\ UNCHANGED << wrapper, count, cidr_blocks, vpc_id, ts, idx, log, sleeps, error,
                  infoEnabled, table >>
  /\ UNCHANGED << reqVars, probeVars, deleteVars, runVars >>

\* the loop is exhausted: create_* returns
Return ==
  /\ pc = "loop"
  /\ ~RangeHasNext(idx, count)
  /\ pc' = "done"
  /\ UNCHANGED << wrapper, count, cidr_blocks, vpc_id, ts, idx, names, log, sleeps,
                  launches, error >>
  /\ UNCHANGED << procVars, reqVars, probeVars, deleteVars, runVars >>

\* subprocess.run returns and the result is reported
SubprocessReturns ==
  /\ pc = "running"
  /\ spc \in {"passed", "failed"}
  /\ LET rc == IF spc = "passed" THEN 0 ELSE 1
     IN  /\ log' = Append(log, Report(wrapper, idx, names[idx + 1].name,
                                      cidr_blocks[idx + 1], rc, stdout, failure))
         /\ pc' = AfterResult(rc)
  /\ UNCHANGED << wrapper, count, cidr_blocks, vpc_id, ts, idx, names, sleeps,
                  launches, error >>
  /\ UNCHANGED << procVars, reqVars, probeVars, deleteVars, runVars >>

\* time.sleep(1) moved into the success branch
SleepAfterSuccessOnly ==
  /\ pc = "sleep"
  /\ sleeps' = IF log[Len(log)].failed THEN sleeps ELSE sleeps + 1
  /\ idx' = idx + 1
  /\ pc' = "loop"
  /\ UNCHANGED << wrapper, count, cidr_blocks, vpc_id, ts, names, log, launches, error >>
  /\ UNCHANGED << procVars, reqVars, probeVars, deleteVars, runVars >>

\* time.sleep(1), then the next index
Sleep ==
  /\ pc = "sleep"
  /\ sleeps' = sleeps + 1
  /\ idx' = idx + 1
  /\ pc' = "loop"
  /\ UNCHANGED << wrapper, count, cidr_blocks, vpc_id, ts, names, log, launches, error >>
  /\ UNCHANGED << procVars, reqVars, probeVars, deleteVars, runVars >>

Init ==
  /\ BulkIdle
  /\ ProcIdle
  /\ ReqIdle
  /\ ProbeIdle
  /\ DeleteIdle
  /\ RunsIdle
  /\ infoEnabled \in BOOLEAN

Next ==
  \/ create_vpcs
  \/ create_subnets
  \/ Launch
  \/ Steps
  \/ SubprocessReturns
  \/ Sleep
  \/ Return

Spec == Init /\ [][Next]_vars

(***************************************************************************)
(* SpecNames: the name-generating loop alone, for long runs.               *)
(***************************************************************************)
GenerateName ==
  /\ pc = "names"
  /\ idx < count
  /\ names' = Append(names, [name  |-> ResourceName(wrapper, ts, idx),
                             stack |-> StackName(wrapper, ts, idx)])
  /\ idx' = idx + 1
  /\ UNCHANGED << wrapper, count, cidr_blocks, vpc_id, pc, ts, log, sleeps, launches,
                  error >>
  /\ UNCHANGED << procVars, reqVars, probeVars, deleteVars, runVars >>

InitNames ==
  /\ wrapper \in {"vpc", "subnet"}
  /\ ts \in { Strftime(c) : c \in Clocks }
  /\ pc = "names"
  /\ count = MaxIndex /\ cidr_blocks = <<>> /\ vpc_id = <<>> /\ idx = 0
  /\ names = <<>> /\ log = <<>> /\ sleeps = 0 /\ launches = 0 /\ error = ""
  /\ ProcIdle
  /\ ReqIdle
  /\ ProbeIdle
  /\ DeleteIdle
  /\ RunsIdle
  /\ infoEnabled = FALSE

NextNames == GenerateName

SpecNames == InitNames /\ [][NextNames]_vars

(***************************************************************************)
(* SpecBuilder: the given steps alone, over the field tables.              *)
(***************************************************************************)
Line(k, v, num, txt) == [field |-> TRUE, key |-> k, val |-> v, n |-> num, text |-> txt]
Junk(txt) == [field |-> FALSE, key |-> <<>>, val |-> <<>>, n |-> -1, text |-> txt]

\* lines a field table may hold: the key and value each denotes (n: the integer a
\* numeric value denotes, -1 otherwise) and its text
TableLines ==
  { Line(Keys.cloudAccountId, <<"4", "2">>, 42, <<"c", "l", "o", "u", "d", "A", "c", "c", "o", "u", "n", "t", "I", "d", "=", "4", "2">>),
    Line(Keys.cloudAccountId, <<"7">>, 7, <<" ", " ", "c", "l", "o", "u", "d", "A", "c", "c", "o", "u", "n", "t", "I", "d", " ", "=", " ", "7", " ">>),
    Line(Keys.cloudAccountId, <<>>, -1, <<"c", "l", "o", "u", "d", "A", "c", "c", "o", "u", "n", "t", "I", "d", "=">>),
    Line(Keys.cloudAccountId, <<"x", "1">>, -1, <<"c", "l", "o", "u", "d", "A", "c", "c", "o", "u", "n", "t", "I", "d", "=", "x", "1">>),
    Line(Keys.tagName, <<"a">>, -1, <<"t", "a", "g", "N", "a", "m", "e", "=", "a">>),
    Line(Keys.tagName, <<"b", "=", "c">>, -1, <<"t", "a", "g", "N", "a", "m", "e", " ", "=", " ", "b", "=", "c">>),
    Line(Keys.tags, <<"t">>, -1, <<"t", "a", "g", "s", "=", "t">>),
    Line(Keys.cloudProvider, <<"g", "c", "p">>, -1, <<"c", "l", "o", "u", "d", "P", "r", "o", "v", "i", "d", "e", "r", "=", "g", "c", "p">>),
    Line(Keys.cloudProvider, <<>>, -1, <<"c", "l", "o", "u", "d", "P", "r", "o", "v", "i", "d", "e", "r", "=">>),
    Line(Keys.cloudRegion, <<"e", "u">>, -1, <<"c", "l", "o", "u", "d", "R", "e", "g", "i", "o", "n", "=", "e", "u">>),
    Line(Keys.cloudRegion, <<>>, -1, <<"c", "l", "o", "u", "d", "R", "e", "g", "i", "o", "n", "=", " ">>),
    Line(Keys.cloudResourceGroup, <<"r", "g">>, -1, <<"c", "l", "o", "u", "d", "R", "e", "s", "o", "u", "r", "c", "e", "G", "r", "o", "u", "p", "=", "r", "g">>),
    Line(Keys.cloudResourceGroup, <<>>, -1, <<"c", "l", "o", "u", "d", "R", "e", "s", "o", "u", "r", "c", "e", "G", "r", "o", "u", "p", "=">>),
    Line(Keys.name, <<"n">>, -1, <<"n", "a", "m", "e", "=", "n">>),
    Junk(<<"#", " ", "n", "o", "t", "e">>),
    Junk(<<>>) }

Tables == ListsUpTo(TableLines, MaxLines)

\* the docstring of a table: its lines joined by line breaks
Docstring(t) == Join([i \in 1..Len(t) |-> t[i].text], <<"\n">>)

InitBuilder ==
  /\ BulkIdle
  /\ scenario \in {"vpc", "subnet"}
  /\ table \in Tables
  /\ docstring = Docstring(table)
  /\ spc \in (IF scenario = "vpc" THEN {"given_account", "given_details"} ELSE {"given_details"})
  /\ environ = EmptyDict /\ expected = 0
  /\ mcn = EmptyDict /\ vpc_data = EmptyDict /\ step_data = EmptyDict
  /\ response = NoResponse /\ stdout = <<>> /\ failure = "" /\ sent = <<>>
  /\ infoEnabled = FALSE
  /\ ReqIdle
  /\ ProbeIdle
  /\ DeleteIdle
  /\ RunsIdle

NextBuilder ==
  \/ given_registered_aws_account
  \/ given_vpc_details
  \/ given_subnet_details

SpecBuilder == InitBuilder /\ [][NextBuilder]_vars

(***************************************************************************)
(* SpecRequest: make_vpc_request, the request executor with retries that   *)
(* the file keeps in its block of lines 947-1290, and its caller           *)
(* when_send_post_request.                                                 *)
(***************************************************************************)
\* max_retries=1 in the signature of make_vpc_request
DefaultMaxRetries == 1
\* max_retries=2 passed by when_send_post_request
SendStepMaxRetries == 2

ConflictText == <<"A", "n", "o", "t", "h", "e", "r", " ", "u", "p", "d", "a", "t", "e", " ", "i", "s", " ", "c", "u", "r", "r", "e", "n", "t", "l", "y", " ", "i", "n", " ", "p", "r", "o", "g", "r", "e", "s", "s">>

\* response.text of the answers the service may give
Texts ==
  { ConflictText,
    <<"e", "r", "r", "o", "r", ":", " ", "A", "n", "o", "t", "h", "e", "r", " ", "u", "p", "d", "a", "t", "e", " ", "i", "s", " ", "c", "u", "r", "r", "e", "n", "t", "l", "y", " ", "i", "n", " ", "p", "r", "o", "g", "r", "e", "s", "s", ".">>,
    <<"a", "n", "o", "t", "h", "e", "r", " ", "u", "p", "d", "a", "t", "e", " ", "i", "s", " ", "c", "u", "r", "r", "e", "n", "t", "l", "y", " ", "i", "n", " ", "p", "r", "o", "g", "r", "e", "s", "s">>,
    <<"o", "k">>,
    <<>>,
    <<"I", "n", "v", "a", "l", "i", "d", " ", "V", "P", "C", "/", "V", "N", "e", "t", " ", "c", "o", "n", "f", "i", "g", "u", "r", "a", "t", "i", "o", "n", ":", " ", "C", "I", "D", "R", " ", "o", "v", "e", "r", "l", "a", "p", "s">>,
    <<"{", "\"", "e", "r", "r", "o", "r", "\"", ":", " ", "\"", "I", "n", "v", "a", "l", "i", "d", " ", "V", "P", "C", "/", "V", "N", "e", "t", " ", "c", "o", "n", "f", "i", "g", "u", "r", "a", "t", "i", "o", "n", "\"", "}">>,
    <<"{", "\"", "d", "e", "t", "a", "i", "l", "\"", ":", " ", "\"", "I", "n", "v", "a", "l", "i", "d", " ", "V", "P", "C", "/", "V", "N", "e", "t", " ", "c", "o", "n", "f", "i", "g", "u", "r", "a", "t", "i", "o", "n", "\"", "}">>,
    <<"\"", "I", "n", "v", "a", "l", "i", "d", " ", "V", "P", "C", "/", "V", "N", "e", "t", " ", "c", "o", "n", "f", "i", "g", "u", "r", "a", "t", "i", "o", "n", "\"">>,
    <<"I", "n", "v", "a", "l", "i", "d", " ", "V", "P", "C", "/", "V", "N", "e", "t", " ", "c", "o", "n", "f", "i", "g", "u", "r", "a", "t", "i", "o", "n", ".", " ", "A", "n", "o", "t", "h", "e", "r", " ", "u", "p", "d", "a", "t", "e", " ", "i", "s", " ", "c", "u", "r", "r", "e", "n", "t", "l", "y", " ", "i", "n", " ", "p", "r", "o", "g", "r", "e", "s", "s">>,
    <<"{", "\"", "e", "r", "r", "o", "r", "\"", ":", " ", "\"", "n", "a", "m", "e", " ", "a", "l", "r", "e", "a", "d", "y", " ", "e", "x", "i", "s", "t", "s", "\"", "}">> }

HttpResponse(code, text) == [kind |-> "response", status_code |-> code, text |-> text]
\* requests.post raised an exception of class `cls`
Raised(cls) == [kind |-> cls, status_code |-> 0, text |-> <<>>]

\* what one requests.post may do: answer, or raise a RequestException
\* (ConnectTimeout is both a ConnectionError and a Timeout; TooManyRedirects is
\* neither)
Outcomes ==
  { HttpResponse(c, t) : c \in {200, 400, 500}, t \in Texts }
    \cup { Raised(cls) : cls \in {"Timeout", "ConnectTimeout", "ConnectionError",
                                  "TooManyRedirects"} }

\* the first except clause that catches an exception of class cls
ExceptClause(cls) ==
  IF cls \in {"Timeout", "ConnectTimeout"} THEN "Timeout"
  ELSE IF cls = "ConnectionError" THEN "ConnectionError"
  ELSE "RequestException"

\* `response.json() if response.text else None`, with None for a body the
\* decoder refuses.  Decoded are the empty object, the empty list, null, a
\* string without escapes and an object of one string member written as
\* {"key": "value"}; among the bodies of Texts every other one is no JSON.
\* Slice is s[a..b], empty when the bounds cross; Wrapped says that s is pre,
\* some text, then suf, and Inner is that text; PlainText is the text of a
\* JSON string that needs no unescaping; KeyName is the dict key a decoded
\* member name stands for.
ResponseJson(text) ==
  LET Slice(s, a, b) == IF a > b THEN <<>> ELSE SubSeq(s, a, b)
      Wrapped(s, pre, suf) ==
        /\ Len(s) >= Len(pre) + Len(suf)
        /\ SubSeq(s, 1, Len(pre)) = pre
        /\ SubSeq(s, Len(s) - Len(suf) + 1, Len(s)) = suf
      Inner(s, pre, suf) == Slice(s, Len(pre) + 1, Len(s) - Len(suf))
      PlainText(s) == ~Contains(s, "\"") /\ ~Contains(s, "\\")
      KeyName(k) ==
        IF k = <<"e", "r", "r", "o", "r">> THEN "error"
        ELSE IF k = <<"d", "e", "t", "a", "i", "l">> THEN "detail"
        ELSE IF k = <<"i", "d">> THEN "id"
        ELSE "other"
      q    == <<"\"">>
      body == Inner(text, <<"{", "\"">>, <<"\"", "}">>)
      sep  == FindSub(body, <<"\"", ":", " ", "\"">>, 1)
      key  == Slice(body, 1, sep - 1)
      val  == Slice(body, sep + 4, Len(body))
  IN  IF text = <<>> THEN JNull
      ELSE IF text = <<"{", "}">> THEN JObj(EmptyDict)
      ELSE IF text = <<"[", "]">> THEN JArr
      ELSE IF text = <<"n", "u", "l", "l">> THEN JNull
      ELSE IF Wrapped(text, q, q) /\ PlainText(Inner(text, q, q))
      THEN JStr(Inner(text, q, q))
      ELSE IF /\ Wrapped(text, <<"{", "\"">>, <<"\"", "}">>)
              /\ sep > 0 /\ PlainText(key) /\ PlainText(val)
      THEN JObj(KeyName(key) :> JStr(val))
      ELSE JNull

\* the api_response_data built from a response (headers left out)
FromResponse(o) ==
  [status_code |-> o.status_code, body |-> o.text, json |-> ResponseJson(o.text),
   error |-> NoneV]
\* the dict returned for a failure
ErrorOutcome(msg) == [status_code |-> 0, body |-> <<>>, json |-> JNull, error |-> Some(msg)]

\* status 400 and a non-empty text that contains the conflict text
IsPulumiConflictAnyBadRequest(o) == o.status_code = 400
IsPulumiConflict(o) ==
  /\ o.status_code = 400
  /\ o.text # <<>>
  /\ FindSub(o.text, ConflictText, 1) > 0

\* if attempt < max_retries - 1
MayRetryOneFewer(a, n) == a < n - 2
MayRetryOneMore(a, n) == a < n
MayRetry(a, n) == a < n - 1

\* one pass of the loop body: requests.post, then continue (after the sleep)
\* or return
Attempt ==
  /\ rpc = "loop"
  /\ attempt < max_retries
  /\ \E o \in Outcomes :
       LET clause == IF o.kind = "response" THEN "try" ELSE ExceptClause(o.kind)
           retry  == /\ MayRetry(attempt, max_retries)
                     /\ \/ clause = "try" /\ IsPulumiConflict(o)
                        \/ clause \in {"Timeout", "ConnectionError"}
       IN  /\ outcomes' = Append(outcomes, o)
           /\ IF retry
              THEN /\ waits' = Append(waits, IF clause = "try" THEN 60 ELSE 30)
                   /\ attempt' = attempt + 1
                   /\ UNCHANGED << rpc, api_response >>
              ELSE /\ rpc' = "returned"
                   /\ api_response' =
                        IF clause = "try" THEN FromResponse(o)
                        ELSE IF clause = "Timeout" THEN ErrorOutcome(<<"R", "e", "q", "u", "e", "s", "t", " ", "t", "i", "m", "e", "d", " ", "o", "u", "t">>)
                        ELSE IF clause = "ConnectionError" THEN ErrorOutcome(<<"C", "o", "n", "n", "e", "c", "t", "i", "o", "n", " ", "e", "r", "r", "o", "r">>)
                        ELSE ErrorOutcome(<<"R", "e", "q", "u", "e", "s", "t", " ", "f", "a", "i", "l", "e", "d">>)
                   /\ UNCHANGED << waits, attempt >>
  /\ UNCHANGED << max_retries >>
  /\ UNCHANGED << bulkVars, procVars, probeVars, deleteVars, runVars >>

\* range(max_retries) is exhausted: the return that follows the loop
Exhausted ==
  /\ rpc = "loop"
  /\ ~(attempt < max_retries)
  /\ rpc' = "returned"
  /\ api_response' = ErrorOutcome(<<"M", "a", "x", "i", "m", "u", "m", " ", "r", "e", "t", "r", "i", "e", "s", " ", "e", "x", "c", "e", "e", "d", "e", "d">>)
  /\ UNCHANGED << max_retries, attempt, outcomes, waits >>
  /\ UNCHANGED << bulkVars, procVars, probeVars, deleteVars, runVars >>

InitRequest ==
  /\ ProbeIdle
  /\ DeleteIdle
  /\ RunsIdle
  /\ BulkIdle
  /\ ProcIdle
  /\ infoEnabled = FALSE
  /\ max_retries \in -1..MaxRetries
  /\ attempt = 0 /\ rpc = "loop"
  /\ outcomes = <<>> /\ waits = <<>> /\ api_response = NoneV

NextRequest ==
  \/ Attempt
  \/ Exhausted

\* every requests.post ends (timeout=(10, 120)), and so does every sleep
SpecRequest == InitRequest /\ [][NextRequest]_vars /\ WF_vars(NextRequest)

(***************************************************************************)
(* SpecVerdict: when_send_post_request, then the status step of the        *)
(* retrying scenario variant.                                              *)
(***************************************************************************)
\* s.lower()
Lower(s) ==
  LET UpperCase == << "A", "B", "C", "D", "E", "F", "G", "H", "I", "J", "K", "L", "M",
                      "N", "O", "P", "Q", "R", "S", "T", "U", "V", "W", "X", "Y", "Z" >>
      LowerCase == << "a", "b", "c", "d", "e", "f", "g", "h", "i", "j", "k", "l", "m",
                      "n", "o", "p", "q", "r", "s", "t", "u", "v", "w", "x", "y", "z" >>
  IN  [ i \in 1..Len(s) |->
          IF \E k \in 1..26 : UpperCase[k] = s[i]
          THEN LowerCase[CHOOSE k \in 1..26 : UpperCase[k] = s[i]]
          ELSE s[i] ]

\* `p in s` for strings
In(p, s) == FindSub(s, p, 1) > 0

ValidationText == <<"I", "n", "v", "a", "l", "i", "d", " ", "V", "P", "C", "/", "V", "N", "e", "t", " ", "c", "o", "n", "f", "i", "g", "u", "r", "a", "t", "i", "o", "n">>

Verdict(result, why, detail) == [result |-> result, why |-> why, detail |-> detail]

\* response_json.get('error', 'No error details provided'): a dict answers,
\* None and every other decoded value have no `get`
ErrorDetails(j) ==
  IF j.t # "obj" THEN Verdict("error", "AttributeError", <<>>)
  ELSE Verdict("failed", "VPC configuration validation failed",
               IF "error" \in DOMAIN j.o THEN j.o["error"].s
               ELSE <<"N", "o", " ", "e", "r", "r", "o", "r", " ", "d", "e", "t", "a", "i", "l", "s", " ", "p", "r", "o", "v", "i", "d", "e", "d">>)

\* the branch `elif actual_code == 400`
BadRequest(api) ==
  IF In(ConflictText, api.body) THEN Verdict("skipped", "Pulumi stack operation in progress", <<>>)
  ELSE IF In(ValidationText, api.body) THEN ErrorDetails(api.json)
  ELSE Verdict("failed", "Bad Request (400)", api.body)

\* then_response_should_be_200(api_response): how the step ends
ResponseShouldBe200(api) ==
  LET code == api.status_code
      msg  == IF api.error.some THEN api.error.v ELSE <<"N", "o", "n", "e">>
  IN  IF code = 0 THEN
        IF In(<<"t", "i", "m", "e", "d", " ", "o", "u", "t">>, Lower(msg)) THEN Verdict("failed", "Request timed out", msg)
        ELSE IF In(<<"c", "o", "n", "n", "e", "c", "t", "i", "o", "n">>, Lower(msg)) THEN Verdict("failed", "Connection failed", msg)
        ELSE Verdict("failed", "Network error", msg)
      ELSE IF code = 400 THEN BadRequest(api)
      ELSE IF code = 401 THEN Verdict("failed", "Authentication failed (401)", <<>>)
      ELSE IF code = 403 THEN Verdict("failed", "Authorization failed (403)", <<>>)
      ELSE IF code = 404 THEN Verdict("failed", "API endpoint not found (404)", <<>>)
      ELSE IF code = 409 THEN
        IF In(<<"a", "l", "r", "e", "a", "d", "y", " ", "e", "x", "i", "s", "t", "s">>, Lower(api.body))
        THEN Verdict("failed", "Conflict (409): already exists", <<>>)
        ELSE Verdict("failed", "Conflict (409)", api.body)
      ELSE IF code = 500 THEN Verdict("failed", "Internal server error (500)", api.body)
      ELSE IF code >= 500 THEN Verdict("failed", "Server error", api.body)
      ELSE IF code \notin {200, 201} THEN Verdict("failed", "Unexpected status code", api.body)
      ELSE Verdict("passed", "", <<>>)

\* @then('the VPC creation API response should be 200') of the retrying variant
then_response_should_be_200 ==
  /\ rpc = "returned"
  /\ spc = "none"
  /\ LET v == ResponseShouldBe200(api_response)
     IN  /\ spc' = IF v.result = "passed" THEN "then_id"
                   ELSE IF v.result = "skipped" THEN "skipped"
                   ELSE "failed"
         /\ failure' = v.why
         /\ stdout' = IF v.result = "passed" THEN stdout ELSE Append(stdout, v.detail)
  /\ UNCHANGED << scenario, environ, infoEnabled, table, docstring, expected, mcn, vpc_data,
                  step_data, response, sent >>
  /\ UNCHANGED << bulkVars, reqVars, probeVars, deleteVars, runVars >>

\* when_send_post_request has called make_vpc_request(..., max_retries=2)
InitVerdict ==
  /\ BulkIdle
  /\ ProcIdle
  /\ ProbeIdle
  /\ DeleteIdle
  /\ RunsIdle
  /\ infoEnabled = FALSE
  /\ max_retries = SendStepMaxRetries
  /\ attempt = 0 /\ rpc = "loop"
  /\ outcomes = <<>> /\ waits = <<>> /\ api_response = NoneV

\* with max_retries = 2 the last pass of the loop returns, so the return
\* that follows the loop (Exhausted) is not part of this call
NextVerdict ==
  \/ Attempt
  \/ then_response_should_be_200

SpecVerdict == InitVerdict /\ [][NextVerdict]_vars

(***************************************************************************)
(* SpecRuns: the names of several runs of one wrapper.                     *)
(***************************************************************************)
MaxRuns == 2
MaxRunNames == 3

\* the seconds at which a run may start
RunClocks ==
  { [Y |-> 2026, m |-> 11, d |-> 2, H |-> 9, M |-> hm[1], S |-> hm[2]] :
      hm \in { <<5, 7>>, <<5, 8>>, <<5, 17>>, <<51, 7>> } }

\* the wrapper is called again: a new timestamp, the index back at 0
NextRun ==
  /\ pc = "names"
  /\ idx = count
  /\ Len(runs) < MaxRuns - 1
  /\ \E c \in RunClocks, n \in 1..MaxRunNames :
       /\ runs' = Append(runs, [clock |-> now.v, names |-> names])
       /\ now' = Some(c)
       /\ ts' = Strftime(c)
       /\ count' = n
  /\ idx' = 0
  /\ names' = <<>>
  /\ UNCHANGED << wrapper, cidr_blocks, vpc_id, pc, log, sleeps, launches, error >>
  /\ UNCHANGED << procVars, reqVars, probeVars, deleteVars >>

InitRuns ==
  /\ wrapper \in {"vpc", "subnet"}
  /\ \E c \in RunClocks : now = Some(c) /\ ts = Strftime(c)
  /\ runs = <<>>
  /\ pc = "names"
  /\ count \in 1..MaxRunNames
  /\ cidr_blocks = <<>> /\ vpc_id = <<>> /\ idx = 0
  /\ names = <<>> /\ log = <<>> /\ sleeps = 0 /\ launches = 0 /\ error = ""
  /\ ProcIdle
  /\ ReqIdle
  /\ ProbeIdle
  /\ DeleteIdle
  /\ infoEnabled = FALSE

NextRuns ==
  \/ GenerateName
  \/ NextRun

SpecRuns == InitRuns /\ [][NextRuns]_vars

(***************************************************************************)
(* SpecDelete: the delete scenarios, run with or without --vpc-id /        *)
(* --subnet-id.                                                            *)
(***************************************************************************)
\* what the command line may hold for the option; None when it is not given
OptionIds ==
  { NoneV, Some(<<>>), Some(<<"v", "p", "c", "-", "0", "1", "2", "3", "4", "5", "6", "7", "8", "9">>), Some(<<"v", "p", "c", "-">>), Some(<<"v", "p", "c", "-", "0", "a", "b", "c">>),
    Some(<<"s", "u", "b", "n", "e", "t", "-", "0", "1", "2", "3", "4", "5", "6", "7", "8", "9", "a", "b", "c", "d", "e", "f", "0">>), Some(<<"s", "u", "b", "n", "e", "t", "-">>), Some(<<" ", "v", "p", "c", "-", "1">>),
    Some(<<"i", "-", "1", "2", "3">>), Some(<<"V", "P", "C", "-", "1">>) }

\* status codes the DELETE may be answered with
DeleteStatuses == {200, 204, 400, 404, 500}

IdPrefix(sc) == IF sc = "vpc_delete" THEN <<"v", "p", "c", "-">> ELSE <<"s", "u", "b", "n", "e", "t", "-">>

\* the fixtures vpc_id and subnet_id of conftest.py: pytest.exit for a truthy
\* value without the prefix, else the value as it is
IdFixture(sc, opt) ==
  IF Truthy(opt) /\ ~StartsWith(opt.v, IdPrefix(sc))
  THEN [exit |-> TRUE, id |-> opt]
  ELSE [exit |-> FALSE, id |-> opt]

\* f"{izo_mcn_url}/cloud/vpc/{vpc_id}", without the base URL
DeleteUrl(sc, id) ==
  (IF sc = "vpc_delete" THEN <<"/", "c", "l", "o", "u", "d", "/", "v", "p", "c", "/">> ELSE <<"/", "c", "l", "o", "u", "d", "/", "s", "u", "b", "n", "e", "t", "/">>)
    \o (IF id.some THEN id.v ELSE <<"N", "o", "n", "e">>)

\* @given("the VPC ID from CLI is available"): the session fixture is built
check_id ==
  /\ scenario \in {"vpc_delete", "subnet_delete"}
  /\ spc = "given_id"
  /\ IF IdFixture(scenario, option_id).exit
     THEN Fail("Exit: Invalid ID format")
     ELSE spc' = "when_delete" /\ failure' = failure
  /\ UNCHANGED << scenario, environ, infoEnabled, table, docstring, expected, mcn, vpc_data,
                  step_data, response, stdout, sent >>
  /\ UNCHANGED << bulkVars, reqVars, probeVars, deleteVars, runVars >>

\* @when("the DELETE call is sent")
send_delete ==
  /\ scenario \in {"vpc_delete", "subnet_delete"}
  /\ spc = "when_delete"
  /\ deletes' = Append(deletes, DeleteUrl(scenario, IdFixture(scenario, option_id).id))
  /\ \/ \E c \in DeleteStatuses :
          /\ response' = Response(c, JObj(EmptyDict))
          /\ spc' = "then_status"
          /\ failure' = failure
     \/ /\ response' = response      \* requests.delete raised
        /\ Fail("RequestException")
  /\ UNCHANGED << scenario, environ, infoEnabled, table, docstring, expected, mcn, vpc_data,
                  step_data, stdout, sent >>
  /\ UNCHANGED option_id
  /\ UNCHANGED << bulkVars, reqVars, probeVars, runVars >>

\* @then("the API responds 200")
check_status ==
  /\ scenario \in {"vpc_delete", "subnet_delete"}
  /\ spc = "then_status"
  /\ IF response.status_code = 200
     THEN spc' = "passed" /\ failure' = failure
     ELSE Fail("AssertionError")
  /\ UNCHANGED << scenario, environ, infoEnabled, table, docstring, expected, mcn, vpc_data,
                  step_data, response, stdout, sent >>
  /\ UNCHANGED << bulkVars, reqVars, probeVars, deleteVars, runVars >>

InitDelete ==
  /\ BulkIdle
  /\ ReqIdle
  /\ ProbeIdle
  /\ RunsIdle
  /\ scenario \in {"vpc_delete", "subnet_delete"}
  /\ option_id \in OptionIds
  /\ deletes = <<>>
  /\ spc = "given_id"
  /\ infoEnabled \in BOOLEAN
  /\ environ = EmptyDict /\ docstring = <<>> /\ table = <<>> /\ expected = 0
  /\ mcn = EmptyDict /\ vpc_data = EmptyDict /\ step_data = EmptyDict
  /\ response = NoResponse /\ stdout = <<>> /\ failure = "" /\ sent = <<>>

NextDelete ==
  \/ check_id
  \/ send_delete
  \/ check_status

SpecDelete == InitDelete /\ [][NextDelete]_vars

(***************************************************************************)
(* SpecProbe: the health probe, followed by the given and the send step.   *)
(***************************************************************************)
\* status codes /health may answer with
ProbeStatuses == {100, 200, 204, 302, 400, 404, 418, 499, 500, 503}

\* what requests.get(health_url, timeout=5) may return or raise
ProbeOutcomes ==
  { HttpResponse(c, <<>>) : c \in ProbeStatuses }
    \cup { Raised(cls) : cls \in {"Timeout", "ConnectionError", "TooManyRedirects"} }

\* logger.warning(line): written at the default level
Warning(out, line) == Append(out, line)

\* the lines given_api_accessible logs for an outcome
ProbeLog(out, o) ==
  IF o.kind # "response" THEN Warning(out, <<"A", "W", "S", " ", "h", "e", "a", "l", "t", "h", " ", "c", "h", "e", "c", "k", " ", "f", "a", "i", "l", "e", "d", ":", " ">>)
  ELSE LET code == o.status_code
           seen == Info(out, <<"H", "e", "a", "l", "t", "h", " ", "p", "r", "o", "b", "e", " ", "/", "h", "e", "a", "l", "t", "h", " ", "-", ">", " ">> \o Decimal(code))
       IN  IF code = 200 THEN Info(seen, <<"A", "W", "S", " ", "A", "P", "I", " ", "i", "s", " ", "h", "e", "a", "l", "t", "h", "y">>)
           ELSE IF code = 404
           THEN Info(seen, <<"H", "e", "a", "l", "t", "h", " ", "e", "n", "d", "p", "o", "i", "n", "t", " ", "n", "o", "t", " ", "f", "o", "u", "n", "d", " ", "f", "o", "r", " ", "A", "W", "S", " ", "(", "a", "c", "c", "e", "p", "t", "a", "b", "l", "e", ")">>)
           ELSE IF 400 <= code /\ code < 500
           THEN Warning(seen, <<"A", "W", "S", " ", "h", "e", "a", "l", "t", "h", " ", "c", "h", "e", "c", "k", " ", "r", "e", "t", "u", "r", "n", "e", "d", " ", "c", "l", "i", "e", "n", "t", " ", "e", "r", "r", "o", "r", " ">> \o Decimal(code))
           ELSE IF code >= 500
           THEN Warning(seen, <<"A", "W", "S", " ", "h", "e", "a", "l", "t", "h", " ", "c", "h", "e", "c", "k", " ", "r", "e", "t", "u", "r", "n", "e", "d", " ", "s", "e", "r", "v", "e", "r", " ", "e", "r", "r", "o", "r", " ">> \o Decimal(code))
           ELSE Warning(seen, <<"A", "W", "S", " ", "h", "e", "a", "l", "t", "h", " ", "c", "h", "e", "c", "k", " ", "r", "e", "t", "u", "r", "n", "e", "d", " ", "u", "n", "e", "x", "p", "e", "c", "t", "e", "d", " ", "s", "t", "a", "t", "u", "s", " ">> \o Decimal(code))

\* a probe that takes a server error or an unreachable service for a failure
ProbeErrorStrict(o) ==
  IF o.kind # "response" THEN o.kind
  ELSE IF o.status_code >= 500 THEN "AssertionError: API is not healthy"
  ELSE ""

\* the exception given_api_accessible ends with, "" when it returns: no case of
\* the match raises, and `except RequestException` takes what requests.get raised
ProbeError(o) ==
  IF o.kind = "response" THEN ""
  ELSE IF ExceptClause(o.kind) \in {"Timeout", "ConnectionError", "RequestException"}
  THEN ""
  ELSE o.kind

\* @given("the AWS API is accessible")
given_api_accessible ==
  /\ scenario \in {"vpc", "subnet"}
  /\ spc = "given_api"
  /\ \E o \in ProbeOutcomes :
       /\ health' = Some(o)
       /\ stdout' = ProbeLog(stdout, o)
       /\ IF ProbeError(o) # "" THEN Fail(ProbeError(o))
          ELSE spc' = "given_details" /\ failure' = failure
  /\ UNCHANGED << scenario, environ, infoEnabled, table, docstring, expected, mcn, vpc_data,
                  step_data, response, sent >>
  /\ UNCHANGED << bulkVars, reqVars, deleteVars, runVars >>

\* a scenario of either feature about to probe; the VPC scenario has
\* registered its account
InitProbe ==
  /\ BulkIdle
  /\ ReqIdle
  /\ ProbeIdle
  /\ DeleteIdle
  /\ RunsIdle
  /\ scenario \in {"vpc", "subnet"}
  /\ spc = "given_api"
  /\ infoEnabled \in BOOLEAN
  /\ environ = EmptyDict /\ table = <<>> /\ expected = 0
  /\ docstring = IF scenario = "vpc" THEN VpcFeatureTable ELSE SubnetFeatureTable
  /\ mcn = IF scenario = "vpc" THEN DictSet(EmptyDict, "aws_id", <<"1">>) ELSE EmptyDict
  /\ vpc_data = EmptyDict /\ step_data = EmptyDict /\ response = NoResponse
  /\ stdout = <<>> /\ failure = "" /\ sent = <<>>

NextProbe ==
  \/ given_api_accessible
  \/ given_vpc_details
  \/ when_post_create_vpc
  \/ given_subnet_details
  \/ when_post_subnet

SpecProbe == InitProbe /\ [][NextProbe]_vars

(***************************************************************************)
(* SpecSession: one pytest process that runs several instances of the VPC  *)
(* scenarios one after the other.                                          *)
(***************************************************************************)
MaxScenarios == 2

\* pytest goes on to the next scenario of the module: the step functions run
\* again in the same interpreter, over the same module-level mcn, vpc_data
\* and response_data
RunNextScenario ==
  /\ scenario = "vpc"
  /\ spc \in {"passed", "failed"}
  /\ Len(sent) < MaxScenarios
  /\ spc' = "given_account"
  /\ expected' = 0
  /\ failure' = ""
  /\ UNCHANGED << scenario, environ, infoEnabled, table, docstring, mcn, vpc_data,
                  step_data, response, stdout, sent >>
  /\ UNCHANGED << bulkVars, reqVars, probeVars, deleteVars, runVars >>

\* a scenario that checks the status only: its next declared step after the
\* status step is the cleanup step
NoIdStep ==
  /\ scenario = "vpc"
  /\ spc = "then_id"
  /\ spc' = "then_cleanup"
  /\ UNCHANGED << scenario, environ, infoEnabled, table, docstring, expected, mcn, vpc_data,
                  step_data, response, stdout, failure, sent >>
  /\ UNCHANGED << bulkVars, reqVars, probeVars, deleteVars, runVars >>

\* the interpreter has imported the step module: its three dicts are empty
InitSession ==
  /\ BulkIdle
  /\ ReqIdle
  /\ ProbeIdle
  /\ DeleteIdle
  /\ RunsIdle
  /\ scenario = "vpc"
  /\ spc = "given_account"
  /\ infoEnabled \in BOOLEAN
  /\ environ = EmptyDict /\ table = <<>> /\ expected = 0
  /\ docstring = VpcFeatureTable
  /\ mcn = EmptyDict /\ vpc_data = EmptyDict /\ step_data = EmptyDict
  /\ response = NoResponse /\ stdout = <<>> /\ failure = "" /\ sent = <<>>

NextSession ==
  \/ given_registered_aws_account
  \/ given_vpc_details
  \/ when_post_create_vpc
  \/ then_create_status
  \/ then_body_contains_vpc_id
  \/ NoIdStep
  \/ then_cleanup_log
  \/ RunNextScenario

SpecSession == InitSession /\ [][NextSession]_vars

(***************************************************************************)
(* SpecResponse: the then steps of the VPC scenario over the answers of    *)
(* the service.                                                            *)
(***************************************************************************)
\* status codes the service may answer with
AllStatuses == {200, 201, 302, 400, 401, 403, 404, 409, 500, 503}

\* a dict with the key k absent, or holding one of vals
Field(k, vals) == {EmptyDict} \cup { k :> v : v \in vals }

\* the dicts a body may hold under "data"
DataObjects ==
  { JObj(a @@ b) :
      a \in Field("id", {JStr(<<"v", "p", "c", "-", "3", "3", "3", "3", "3", "3", "3", "3">>), JNum}),
      b \in Field("vpcId", {JStr(<<"v", "p", "c", "-", "a", "b", "c">>), JStr(<<"a", "b", "c">>)}) }

\* bodies over the four places an id may stand in, and bodies that are no dict
BodySpace ==
  { JObj(a @@ b @@ c) :
      a \in Field("id", {JStr(<<"v", "p", "c", "-", "1", "1", "1", "1", "1", "1", "1", "1">>), JStr(<<" ">>), JNum}),
      b \in Field("vpcId", {JStr(<<" ", "v", "p", "c", "-", "2", "2", "2", "2", "2", "2", "2", "2", " ">>), JStr(<<>>), JNull}),
      c \in Field("data", DataObjects \cup {JStr(<<"x">>)}) }
    \cup {NotJson, JArr, JStr(<<"v", "p", "c", "-", "5", "5", "5", "5", "5", "5", "5", "5">>)}

InitResponse ==
  /\ BulkIdle
  /\ ReqIdle
  /\ ProbeIdle
  /\ DeleteIdle
  /\ RunsIdle
  /\ scenario = "vpc"
  /\ spc = "then_status"
  /\ infoEnabled \in BOOLEAN
  /\ response \in { Response(c, b) : c \in AllStatuses, b \in BodySpace }
  \* the given steps and the send step have run on the scenario's own table
  /\ environ = EmptyDict /\ docstring = VpcFeatureTable /\ table = <<>> /\ expected = 0
  /\ LET g == GivenVpcDetails(EmptyDict, VpcFeatureTable, DictSet(EmptyDict, "aws_id", <<"1">>))
     IN  mcn = g.mcn /\ vpc_data = g.data /\ sent = <<g.data>>
  /\ step_data = EmptyDict /\ stdout = <<>> /\ failure = ""

NextResponse ==
  \/ then_create_status
  \/ then_body_contains_vpc_id
  \/ then_cleanup_log

SpecResponse == InitResponse /\ [][NextResponse]_vars

(***************************************************************************)
(* SpecAnswers: the then steps of both creation scenarios over the answers *)
(* of the service, bodies that are no dict included.                       *)
(***************************************************************************)
\* the dicts a subnet body may hold under "data"
SubnetDataObjects ==
  { JObj(a @@ b) :
      a \in Field("id", {JStr(<<"s", "u", "b", "n", "e", "t", "-", "3">>), JNum}),
      b \in Field("subnetId", {JStr(<<"s", "u", "b", "n", "e", "t", "-", "4">>), JStr(<<>>)}) }

\* subnet bodies over the four places an id may stand in, and decoded bodies
\* that are no dict: a list, two strings, a number, null
SubnetBodySpace ==
  { JObj(a @@ b @@ c) :
      a \in Field("id", {JStr(<<"s", "u", "b", "n", "e", "t", "-", "1">>), JStr(<<>>), JNum}),
      b \in Field("subnetId", {JStr(<<"s", "u", "b", "n", "e", "t", "-", "2">>), JStr(<<>>), JNum}),
      c \in Field("data", SubnetDataObjects \cup {JStr(<<"x">>)}) }
    \cup {JObj("message" :> JStr(<<"o", "k">>))}
    \cup {NotJson, JArr, JStr(<<"h", "e", "l", "l", "o">>), JStr(<<"i", "n", "v", "a", "l", "i", "d">>), JNum, JNull}

InitAnswers ==
  /\ BulkIdle
  /\ ReqIdle
  /\ ProbeIdle
  /\ DeleteIdle
  /\ RunsIdle
  /\ scenario \in {"vpc", "subnet"}
  /\ spc = "then_status"
  /\ infoEnabled \in BOOLEAN
  /\ response \in
       { Response(c, b) :
           c \in AllStatuses,
           b \in IF scenario = "vpc"
                 THEN BodySpace \cup {JObj("message" :> JStr(<<"o", "k">>)), JNum, JNull}
                 ELSE SubnetBodySpace }
  \* the given steps and the send step have run on the scenario's own table
  /\ environ = EmptyDict /\ table = <<>> /\ expected = 0
  /\ IF scenario = "vpc"
     THEN LET g == GivenVpcDetails(EmptyDict, VpcFeatureTable,
                                   DictSet(EmptyDict, "aws_id", <<"1">>))
          IN  /\ docstring = VpcFeatureTable
              /\ mcn = g.mcn /\ vpc_data = g.data /\ sent = <<g.data>>
              /\ step_data = EmptyDict
     ELSE LET g == GivenSubnetDetails(EmptyDict, SubnetFeatureTable, EmptyDict)
          IN  /\ docstring = SubnetFeatureTable
              /\ mcn = EmptyDict /\ vpc_data = EmptyDict
              /\ step_data = g.data /\ sent = <<g.data>>
  /\ stdout = <<>> /\ failure = ""

NextAnswers ==
  \/ then_create_status
  \/ then_body_contains_vpc_id
  \/ then_cleanup_log
  \/ then_status
  \/ then_extract_subnet

SpecAnswers == InitAnswers /\ [][NextAnswers]_vars

(***************************************************************************)
(* Properties.                                                             *)
(***************************************************************************)
Last(q) == q[Len(q)]
\* the greatest element of a non-empty set of integers
Greatest(S) == CHOOSE i \in S : \A j \in S : j <= i
\* the 14 characters that follow the prefix of a generated name
StampOf(name, prefix) == SubSeq(name, Len(prefix) + 1, Len(prefix) + 14)
\* the account id given_registered_aws_account registers
RegisteredAccountId == 1

\* C1: a call of create_vpcs / create_subnets with count < 1 or
\* count > len(cidr_blocks) raises ValueError before any iteration: no name is
\* generated, no timestamp taken, no child process launched, nothing reported,
\* no sleep taken.
C1_PreconditionsFailFast ==
  (pc # "idle" /\ (count < 1 \/ count > Len(cidr_blocks)))
    => /\ pc = "raised"
       /\ error # ""
       /\ names = <<>> /\ ts = <<>>
       /\ launches = 0 /\ scenario = "none" /\ sent = <<>>
       /\ log = <<>>
       /\ sleeps = 0

\* count=3 with 2 CIDR blocks has been refused
C1_Witness ==
  /\ pc = "raised" /\ count = 3 /\ Len(cidr_blocks) = 2
  /\ error = "count cannot exceed number of CIDR blocks supplied"

\* C2: within one run, any two distinct iterations generate different resource
\* names and different stack names, also past index 99 where the two-digit
\* padding no longer pads.
C2_NamesCollisionFree ==
  \A i, j \in 1..Len(names) :
    i # j => /\ names[i].name # names[j].name
             /\ names[i].stack # names[j].stack

\* a run has generated the names of indices 0..100
C2_Witness ==
  /\ Len(names) > 100
  /\ Len(names[101].name) > Len(names[100].name)

\* C3: a run that passed its preconditions reports exactly one result per index
\* 0..count-1, in increasing index order, whatever the outcomes; every generated
\* name carries the run's one timestamp; iteration i uses cidr_blocks[i] and no
\* block at a position >= count is used.
C3_OneResultPerIndex ==
  /\ pc = "done" => Len(log) = count /\ Len(names) = count
  /\ Len(names) <= count \/ pc = "raised"
  /\ \A i \in 1..Len(log) :
       /\ log[i].idx = i - 1
       /\ log[i].name = names[i].name
       /\ log[i].cidr = cidr_blocks[i]
  /\ \A i \in 1..Len(names) :
       /\ StampOf(names[i].name, NamePrefix(wrapper)) = ts
       /\ StampOf(names[i].stack, StackPrefix(wrapper)) = ts
  /\ (pc = "running" /\ scenario = "vpc") => environ["VPC_BULK_CIDR"] = cidr_blocks[idx + 1]
  /\ (pc = "running" /\ scenario = "subnet") => environ["SUBNET_BULK_CIDR"] = cidr_blocks[idx + 1]

\* a run of two iterations is complete, the first failed and the second passed
C3_Witness ==
  /\ pc = "done" /\ count = 2 /\ Len(log) = 2
  /\ log[1].failed /\ log[2].created
  /\ Len(cidr_blocks) = 2

\* C4: a failed child (non-zero return code) is reported as failed together with
\* its diagnostic output, and never ends the run: the wrapper raises only from
\* its preconditions, each reported failure is followed by the sleep and the
\* next iteration, and the run is done only after `count` launches.
C4_NeverAbortsEarly ==
  /\ \A i \in 1..Len(log) :
       log[i].returncode # 0 => log[i].failed /\ ~log[i].created /\ log[i].diag # ""
  /\ pc = "sleep" => /\ (spc = "failed") = Last(log).failed
                     /\ Last(log).failed => Last(log).diag = failure
                     /\ ENABLED Sleep
  /\ pc = "raised" => log = <<>> /\ launches = 0
  /\ (pc = "loop" /\ idx < count) => ENABLED Launch
  /\ (pc = "running" /\ spc \in {"passed", "failed"}) => ENABLED SubprocessReturns
  /\ Len(log) <= launches /\ launches <= Len(log) + 1
  /\ pc = "done" => launches = count /\ Len(log) = count

\* the first of two iterations failed and the run still completed
C4_Witness ==
  /\ pc = "done" /\ launches = 2 /\ sleeps = 2
  /\ log[1].failed /\ log[1].diag = "Internal Server Error (500)"
  /\ log[2].failed

\* C5: the payload a bulk VPC iteration posts has cidrBlock = cidr_blocks[i],
\* name and tags.Name = the generated name, stackName = the generated stack name
\* (so nothing of the scenario's own field table).
C5_BulkPayloadCarriesIteration ==
  (wrapper = "vpc" /\ pc = "running" /\ spc = "when_post")
    => /\ {Keys.cidrBlock, Keys.name, Keys.stackName, Keys.tags} \subseteq DOMAIN vpc_data
       /\ vpc_data[Keys.cidrBlock] = PStr(cidr_blocks[idx + 1])
       /\ vpc_data[Keys.name] = PStr(names[idx + 1].name)
       /\ vpc_data[Keys.stackName] = PStr(names[idx + 1].stack)
       /\ vpc_data[Keys.tags] = PTags(names[idx + 1].name)

\* C6: in a VPC run an iteration is reported as created exactly when its child
\* returned 0; when it returned 0 and no id was recovered a warning is reported
\* as well, the iteration still counts as created, and the run goes on.
C6_CreatedByReturnCodeAlone ==
  wrapper = "vpc" =>
    /\ \A i \in 1..Len(log) :
         /\ log[i].created = (log[i].returncode = 0)
         /\ log[i].warned = (log[i].returncode = 0 /\ ~Truthy(log[i].vpc_id))
         /\ log[i].warned => log[i].created /\ ~log[i].failed
    /\ (pc = "sleep" /\ Last(log).warned) => ENABLED Sleep
    /\ log # <<>> => pc # "raised"

\* an iteration without a recovered id was reported created, with the warning,
\* and the next iteration was launched
C6_Witness ==
  /\ wrapper = "vpc" /\ launches = 2
  /\ log # <<>> /\ log[1].created /\ log[1].warned /\ ~log[1].vpc_id.some

\* C7: when the child of a VPC iteration passed and its id step extracted the
\* well-formed id v, the wrapper recovers exactly v from the child's output.
C7_WrapperRecoversExtractedId ==
  (wrapper = "vpc" /\ pc = "sleep" /\ Last(log).created /\ "aws_vpc_id" \in DOMAIN mcn)
    => Last(log).vpc_id = Some(mcn["aws_vpc_id"])

\* the lines of `table` whose key is k
LinesOf(t, k) == { i \in 1..Len(t) : t[i].field /\ t[i].key = k }

\* C8: the built VPC payload holds an integer cloudAccountId: the value of the
\* table's (last) cloudAccountId line when that is a non-blank number, the
\* context default (the registered account id, else 1) when the table has no
\* such line or its value is blank.
C8_AccountIdParsedOrDefault ==
  (scenario = "vpc" /\ spc = "when_post") =>
    LET S == LinesOf(table, Keys.cloudAccountId)
    IN  /\ Keys.cloudAccountId \in DOMAIN vpc_data
        /\ vpc_data[Keys.cloudAccountId].kind = "int"
        /\ (S # {} /\ table[Greatest(S)].n >= 0)
             => vpc_data[Keys.cloudAccountId].n = table[Greatest(S)].n
        /\ (S = {} \/ table[Greatest(S)].val = <<>>)
             => vpc_data[Keys.cloudAccountId].n =
                  (IF "aws_id" \in DOMAIN mcn THEN RegisteredAccountId ELSE 1)

\* a payload was built from a numeric line written with blanks around it, and
\* another from a blank line after the account was registered
C8_Witness ==
  /\ scenario = "vpc" /\ spc = "when_post"
  /\ "aws_id" \in DOMAIN mcn
  /\ Len(table) = 2
  /\ table[1].key = Keys.cloudAccountId /\ table[1].val = <<>>
  /\ table[2].key = Keys.cloudAccountId /\ table[2].n = 7
  /\ vpc_data[Keys.cloudAccountId] = PInt(7)

\* C9: a built VPC payload whose table has a tagName line holds
\* tags.Name = the value of the last such line and no top-level tagName.
C9_TagNameBecomesTagsName ==
  (scenario = "vpc" /\ spc = "when_post" /\ LinesOf(table, Keys.tagName) # {}) =>
    /\ Keys.tags \in DOMAIN vpc_data
    /\ vpc_data[Keys.tags] = PTags(table[Greatest(LinesOf(table, Keys.tagName))].val)
    /\ Keys.tagName \notin DOMAIN vpc_data

\* C10: every payload a builder produced (vpc_data, step_data) holds
\* cloudAccountId, cloudProvider, cloudRegion and cloudResourceGroup.
C10_RequiredFieldsPresent ==
  spc = "when_post" =>
    {Keys.cloudAccountId, Keys.cloudProvider, Keys.cloudRegion, Keys.cloudResourceGroup}
      \subseteq DOMAIN (IF scenario = "vpc" THEN vpc_data ELSE step_data)

\* the hardcoded fallback of a defaulted field
FallbackOf(k) ==
  IF k = Keys.cloudProvider THEN <<"a", "w", "s">>
  ELSE IF k = Keys.cloudRegion THEN <<"u", "s", "-", "e", "a", "s", "t", "-", "1">>
  ELSE <<>>

\* C11: in a built VPC payload each of cloudProvider, cloudRegion and
\* cloudResourceGroup whose table line is absent or blank holds the hardcoded
\* fallback ("aws", "us-east-1", ""), the context of a fresh process holding no
\* earlier value for any of them.
C11_DefaultingOrder ==
  (scenario = "vpc" /\ spc = "when_post") =>
    \A k \in {Keys.cloudProvider, Keys.cloudRegion, Keys.cloudResourceGroup} :
      LET S == LinesOf(table, k)
      IN  (S = {} \/ table[Greatest(S)].val = <<>>)
            => k \in DOMAIN vpc_data /\ vpc_data[k] = PStr(FallbackOf(k))

\* C12: a VPC table without any `=` line makes the builder fail, and nothing
\* is sent for it.
C12_EmptyTableFails ==
  (scenario = "vpc" /\ spc \notin {"given_account", "given_details"}
     /\ \A i \in 1..Len(table) : ~table[i].field)
    => spc = "failed" /\ sent = <<>>

\* C13: make_vpc_request makes a further attempt only after a timeout, a
\* connection failure, or a 400 response whose body contains 'Another update is
\* currently in progress'; after any other outcome it returns at once, with no
\* further attempt and no sleep.
C13_RetryOnlyOnThreeSignatures ==
  LET transient(o) ==
        \/ o.kind \in {"Timeout", "ConnectTimeout", "ConnectionError"}
        \/ /\ o.kind = "response" /\ o.status_code = 400
           /\ \E i \in 1..(Len(o.text) - Len(ConflictText) + 1) :
                SubSeq(o.text, i, i + Len(ConflictText) - 1) = ConflictText
  IN  /\ \A i \in 1..(Len(outcomes) - 1) : transient(outcomes[i])
      /\ (outcomes # <<>> /\ ~transient(Last(outcomes)))
           => /\ rpc = "returned"
              /\ Len(waits) = Len(outcomes) - 1
              /\ attempt = Len(outcomes) - 1

\* a 500 answer to the second attempt ended a call that could have made a third
C13_Witness ==
  /\ rpc = "returned" /\ max_retries = 3 /\ Len(outcomes) = 2
  /\ outcomes[1].kind = "ConnectionError"
  /\ outcomes[2] = HttpResponse(500, ConflictText)
  /\ waits = <<30>>

C15_BoundedAttemptsThenReturn ==
  /\ [](/\ Len(outcomes) <= (IF max_retries > 0 THEN max_retries ELSE 0)
        /\ rpc = "loop" => Len(waits) = Len(outcomes) /\ attempt = Len(outcomes)
        /\ (rpc = "returned" /\ outcomes # <<>>) =>
             /\ Len(waits) = Len(outcomes) - 1
             /\ Last(outcomes).kind = "response"
                  => /\ api_response.status_code = Last(outcomes).status_code
                     /\ api_response.body = Last(outcomes).text
                     /\ ~api_response.error.some
             /\ Last(outcomes).kind # "response"
                  => /\ api_response.status_code = 0
                     /\ api_response.error.some
                     /\ api_response.error.v \in
                          {<<"R", "e", "q", "u", "e", "s", "t", " ", "t", "i", "m", "e", "d", " ", "o", "u", "t">>, <<"C", "o", "n", "n", "e", "c", "t", "i", "o", "n", " ", "e", "r", "r", "o", "r">>, <<"R", "e", "q", "u", "e", "s", "t", " ", "f", "a", "i", "l", "e", "d">>}
        /\ (rpc = "returned" /\ max_retries <= 0) =>
             /\ outcomes = <<>> /\ waits = <<>>
             /\ api_response = ErrorOutcome(<<"M", "a", "x", "i", "m", "u", "m", " ", "r", "e", "t", "r", "i", "e", "s", " ", "e", "x", "c", "e", "e", "d", "e", "d">>))
  /\ <>(rpc = "returned")

\* three attempts met a timeout and then the conflict twice; the last 400 came back
C15_Witness ==
  /\ rpc = "returned" /\ max_retries = 3 /\ Len(outcomes) = 3
  /\ outcomes[1].kind = "Timeout"
  /\ outcomes[2] = HttpResponse(400, ConflictText)
  /\ outcomes[3] = HttpResponse(400, ConflictText)
  /\ api_response.status_code = 400
  /\ waits = <<30, 60>>

\* C16: the send step of the VPC scenario never raises: once the request was
\* attempted the scenario goes on with an outcome value, it is not ended by the
\* request's exception.
C16_SendNeverRaises ==
  (scenario = "vpc" /\ sent # <<>>)
    => ~(spc = "failed" /\ failure = "RequestException")

\* C17: the status step passes exactly when the actual status equals the
\* expected one, also when that is 400, 404 or 503; every other status ends the
\* scenario with the diagnostic of its band: 400, 401, 403, 404, 409, 500, any
\* other status >= 500, 'expected status' for the rest.
C17_StatusClassification ==
  (scenario = "vpc" /\ expected # 0) =>
    LET actual == response.status_code
        bands  == {"Bad Request (400)", "Unauthorized (401)", "Forbidden (403)",
                   "Not Found (404)", "Conflict (409)", "Internal Server Error (500)",
                   "Server Error", "Expected status"}
    IN  IF actual = expected
        THEN failure \notin bands
        ELSE /\ spc = "failed"
             /\ actual = 400 => failure = "Bad Request (400)"
             /\ actual = 401 => failure = "Unauthorized (401)"
             /\ actual = 403 => failure = "Forbidden (403)"
             /\ actual = 404 => failure = "Not Found (404)"
             /\ actual = 409 => failure = "Conflict (409)"
             /\ actual = 500 => failure = "Internal Server Error (500)"
             /\ actual > 500 => failure = "Server Error"
             /\ actual \notin {400, 401, 403, 404, 409} /\ actual < 500
                  => failure = "Expected status"

\* a scenario that expects 400 got 400 and went on to the id step
C17_Witness ==
  /\ scenario = "vpc" /\ wrapper = "none"
  /\ expected = 400 /\ response.status_code = 400
  /\ spc = "then_id" /\ failure = ""

\* C18: the id step takes the first of top-level id, top-level vpcId, data.id,
\* data.vpcId that is a string and not blank, trimmed; a place that is absent,
\* no string or blank is passed over.  What the step then does shows the id it
\* took: a `vpc-` id is recorded, any other id fails as malformed, no id fails
\* as not found.
C18_FirstMatchWins ==
  (scenario = "vpc" /\ wrapper = "none" /\ response.json.t # "notjson"
     /\ (spc \in {"then_cleanup", "passed"}
           \/ (spc = "failed" /\ expected = response.status_code)))
    =>
    LET j      == response.json
        usable(d, k) == /\ d.t = "obj" /\ k \in DOMAIN d.o
                        /\ d.o[k].t = "str" /\ Strip(d.o[k].s) # <<>>
        nested == IF j.t = "obj" /\ "data" \in DOMAIN j.o THEN j.o["data"] ELSE JNull
        hits   == (IF usable(j, "id") THEN <<Strip(j.o["id"].s)>> ELSE <<>>)
                  \o (IF usable(j, "vpcId") THEN <<Strip(j.o["vpcId"].s)>> ELSE <<>>)
                  \o (IF usable(nested, "id") THEN <<Strip(nested.o["id"].s)>> ELSE <<>>)
                  \o (IF usable(nested, "vpcId") THEN <<Strip(nested.o["vpcId"].s)>> ELSE <<>>)
    IN  IF hits = <<>>
        THEN /\ failure = "AssertionError: VPC ID not found in response"
             /\ "aws_vpc_id" \notin DOMAIN mcn
        ELSE IF StartsWith(hits[1], <<"v", "p", "c", "-">>)
        THEN /\ "aws_vpc_id" \in DOMAIN mcn /\ mcn["aws_vpc_id"] = hits[1]
             /\ failure \in {"", "TypeError"}
        ELSE /\ failure = "AssertionError: Found ID but it doesn't match expected VPC ID format"
             /\ "aws_vpc_id" \notin DOMAIN mcn

\* a body with a blank top-level id, no vpcId and data.vpcId = "vpc-abc" gave vpc-abc
C18_Witness ==
  /\ scenario = "vpc" /\ wrapper = "none" /\ spc = "then_cleanup"
  /\ response.json.t = "obj"
  /\ DOMAIN response.json.o = {"id", "data"}
  /\ response.json.o["id"] = JStr(<<" ">>)
  /\ response.json.o["data"] = JObj("vpcId" :> JStr(<<"v", "p", "c", "-", "a", "b", "c">>))
  /\ mcn["aws_vpc_id"] = <<"v", "p", "c", "-", "a", "b", "c">>

\* C19: when the status equals the expected 200 or 201 and the body is
\* {"id": v} with v = `vpc-` plus at least 8 characters, the status step and the
\* id step both complete without failing and v is recorded in the context.
C19_SuccessPathCompletes ==
  (/\ scenario = "vpc" /\ wrapper = "none"
   /\ expected = response.status_code /\ expected \in ExpectedStatuses
   /\ response.json.t = "obj" /\ DOMAIN response.json.o = {"id"}
   /\ response.json.o["id"].t = "str"
   /\ StartsWith(response.json.o["id"].s, <<"v", "p", "c", "-">>)
   /\ Len(response.json.o["id"].s) >= 12
   /\ spc # "then_id")
    => /\ spc \in {"then_cleanup", "passed"}
       /\ failure = ""
       /\ "aws_vpc_id" \in DOMAIN mcn
       /\ mcn["aws_vpc_id"] = response.json.o["id"].s

\* C20: an id is recorded in the context only if it is `vpc-` followed by at
\* least 8 more characters; an id that was found without this form ends the
\* step with the malformed-id failure and is not recorded.
C20_IdFormatValidated ==
  /\ "aws_vpc_id" \in DOMAIN mcn
       => /\ StartsWith(mcn["aws_vpc_id"], <<"v", "p", "c", "-">>)
          /\ Len(mcn["aws_vpc_id"]) >= 12
  /\ failure = "AssertionError: Found ID but it doesn't match expected VPC ID format"
       => "aws_vpc_id" \notin DOMAIN mcn

\* C21: when the id step runs on a body that is JSON but holds no identifier in
\* any recognised place (no non-empty string at top-level id, at top-level
\* vpcId/subnetId, at data.id or at data.vpcId/data.subnetId; a body that is no
\* object has none), the step of the VPC and of the subnet scenario ends with
\* the identifier-not-found failure and with no other error.
C21_NoIdentifierFailsNotFound ==
  LET j     == response.json
      own   == IF scenario = "vpc" THEN "vpcId" ELSE "subnetId"
      id(d, k) == /\ d.t = "obj" /\ k \in DOMAIN d.o
                  /\ d.o[k].t = "str" /\ d.o[k].s # <<>>
      nested == IF j.t = "obj" /\ "data" \in DOMAIN j.o THEN j.o["data"] ELSE JNull
      none  == ~id(j, "id") /\ ~id(j, own) /\ ~id(nested, "id") /\ ~id(nested, own)
  IN  (/\ scenario \in {"vpc", "subnet"}
       /\ expected = response.status_code
       /\ spc \notin {"then_status", "then_id"}
       /\ j.t # "notjson" /\ none)
        => /\ spc = "failed"
           /\ failure = IF scenario = "vpc"
                         THEN "AssertionError: VPC ID not found in response"
                         ELSE "AssertionError: Subnet ID not found"

\* C22: when the body is no JSON, the id step fails with the non-JSON failure,
\* which is not the identifier-not-found failure, in the VPC and in the subnet
\* scenario; the status step before it passes exactly when the status code is
\* the expected one and fails with its status diagnostic otherwise, whatever
\* the body.
C22_NonJsonFailsIdStepOnly ==
  (scenario \in {"vpc", "subnet"} /\ expected # 0 /\ response.json.t = "notjson")
    => IF response.status_code # expected
       THEN /\ spc = "failed"
            /\ failure = IF scenario = "vpc"
                          THEN StatusDiagnostic(response.status_code)
                          ELSE "AssertionError: Expected status"
       ELSE \/ spc = "then_id" /\ failure = ""
            \/ /\ spc = "failed"
               /\ failure = IF scenario = "vpc"
                             THEN "AssertionError: Response is not valid JSON"
                             ELSE "AssertionError: Non-JSON response"

\* a subnet answer with the expected status 201 and a body that is no JSON
\* passed the status step and failed the id step
C22_Witness ==
  /\ scenario = "subnet" /\ response.json.t = "notjson"
  /\ response.status_code = 201 /\ expected = 201
  /\ spc = "failed" /\ failure = "AssertionError: Non-JSON response"

\* C23: the health probe never fails the scenario: for every outcome of the
\* GET (200, 404, another 4xx, a 5xx, any other status, a request error) the
\* step writes log lines only and the scenario goes on to its next step.
C23_ProbeNeverFails ==
  [][ spc = "given_api" =>
        /\ health'.some
        /\ spc' = "given_details"
        /\ failure' = ""
        /\ UNCHANGED << mcn, vpc_data, step_data, response, sent, environ, docstring >> ]_vars

\* a probe answered by 503, or ended by a connection error, was followed by
\* the given step and the send step of its scenario
C23_Witness ==
  /\ scenario \in {"vpc", "subnet"}
  /\ health.some
  /\ \/ health.v.kind = "ConnectionError"
     \/ health.v.kind = "response" /\ health.v.status_code = 503
  /\ spc = "then_status" /\ Len(sent) = 1

\* C24: scenario instances are isolated: the VPC id that the cleanup step of
\* an instance reports is the id that this instance's own response holds;
\* an id recorded by an earlier instance of the same process is never
\* reported by a later one.
C24_InstancesIsolated ==
  [][ (spc = "then_cleanup" /\ stdout' # stdout) =>
        LET x == ExtractVpcId(response.json)
        IN  /\ x.some
            /\ StartsWith(Last(stdout'), <<"C", "L", "E", "A", "N", "U", "P", "_", "R", "E", "Q", "U", "I", "R", "E", "D", "|", "V", "P", "C", "_", "I", "D", "=">> \o x.v \o <<"|", "R", "E", "G", "I", "O", "N", "=">>) ]_vars

\* C25: a bulk run is strictly sequential: at most one scenario run is in
\* flight, the run of iteration i starts only when the i earlier runs have
\* finished, their results are recorded and a delay has been taken after each
\* of them, whether it passed or failed.
C25_StrictlySequential ==
  /\ pc \in {"idle", "raised", "loop", "running", "sleep", "done"}
  /\ pc \in {"idle", "raised"} => launches = 0 /\ Len(log) = 0 /\ sleeps = 0
  /\ pc \in {"loop", "done"} => launches = idx /\ Len(log) = idx /\ sleeps = idx
  /\ pc = "running" => launches = idx + 1 /\ Len(log) = idx /\ sleeps = idx
  /\ pc = "sleep" => launches = idx + 1 /\ Len(log) = idx + 1 /\ sleeps = idx
  /\ pc # "running" => spc \in {"none", "passed", "failed"}
  /\ \A i \in 1..Len(log) : log[i].idx = i - 1

\* the second iteration is in flight after a failed first one and its delay
C25_Witness ==
  /\ pc = "running" /\ idx = 1 /\ spc = "when_post"
  /\ Len(log) = 1 /\ log[1].failed /\ sleeps = 1

\* C26: the subnet id step searches top-level id, then top-level subnetId, then
\* data.id, then data.subnetId, and takes the first that is a non-empty
\* string; a place that is present but empty or no string is passed over.
\* The step passes and names that id when there is one, and fails as
\* not found when there is none.
C26_SubnetFirstMatchWins ==
  (/\ scenario = "subnet" /\ wrapper = "none"
   /\ expected = response.status_code
   /\ spc \in {"passed", "failed"}
   /\ response.json.t = "obj")
    =>
    LET j      == response.json
        usable(d, k) == /\ d.t = "obj" /\ k \in DOMAIN d.o
                        /\ d.o[k].t = "str" /\ d.o[k].s # <<>>
        nested == IF "data" \in DOMAIN j.o THEN j.o["data"] ELSE JNull
        hits   == (IF usable(j, "id") THEN <<j.o["id"].s>> ELSE <<>>)
                  \o (IF usable(j, "subnetId") THEN <<j.o["subnetId"].s>> ELSE <<>>)
                  \o (IF usable(nested, "id") THEN <<nested.o["id"].s>> ELSE <<>>)
                  \o (IF usable(nested, "subnetId") THEN <<nested.o["subnetId"].s>> ELSE <<>>)
    IN  IF hits = <<>>
        THEN spc = "failed" /\ failure = "AssertionError: Subnet ID not found"
        ELSE /\ spc = "passed"
             /\ infoEnabled => Last(stdout) = <<" ", "S", "u", "b", "n", "e", "t", " ", "c", "r", "e", "a", "t", "e", "d", ":", " ">> \o hits[1]

\* C27: the status check of the retrying scenario variant ends a 400 answer
\* in exactly one of three ways and with no other error, whether or not the
\* body is JSON: skipped when the body contains "Another update is currently in
\* progress" (tested first), failed as a validation failure that reports the
\* body's error details when the body contains "Invalid VPC/VNet
\* configuration", failed as a bad request that carries the body otherwise.
C27_BadRequestThreeWay ==
  (rpc = "returned" /\ spc # "none" /\ api_response.status_code = 400)
    => LET body == api_response.body
       IN  IF In(ConflictText, body)
           THEN spc = "skipped"
           ELSE IF In(ValidationText, body)
           THEN /\ spc = "failed"
                /\ failure = "VPC configuration validation failed"
           ELSE /\ spc = "failed"
                /\ failure = "Bad Request (400)"
                /\ Last(stdout) = body

\* C28: the fallback scan never changes what the VPC id extraction returns:
\* for every JSON body the extraction gives what the four direct patterns
\* (id, vpcId, data.id, data.vpcId) give alone, so a body that none of them
\* matches ends the id step as not found.
C28_FallbackFindsNothingNew ==
  (scenario = "vpc" /\ response.present /\ response.json.t # "notjson")
    => /\ ExtractVpcId(response.json) = DirectPatterns(response.json)
       /\ (/\ expected = response.status_code
           /\ spc \notin {"then_status", "then_id"}
           /\ ~DirectPatterns(response.json).some)
            => /\ spc = "failed"
               /\ failure = "AssertionError: VPC ID not found in response"
               /\ "aws_vpc_id" \notin DOMAIN mcn

\* the id step ran its fallback loop to the end, on a body with a blank id and
\* a data.id that is a number, and failed as not found
C28_Witness ==
  /\ scenario = "vpc" /\ spc = "failed"
  /\ failure = "AssertionError: VPC ID not found in response"
  /\ response.json.t = "obj" /\ DOMAIN response.json.o = {"id", "data"}
  /\ response.json.o["id"] = JStr(<<" ">>)
  /\ response.json.o["data"] = JObj("id" :> JNum)

\* C29: a delete scenario sends a DELETE request only for an identifier that
\* was given on the command line and begins with `vpc-` (VPC deletion) or
\* `subnet-` (subnet deletion); with no identifier given, or a malformed one,
\* no DELETE request is sent.
C29_DeleteOnlySuppliedId ==
  scenario \in {"vpc_delete", "subnet_delete"} =>
    LET prefix   == IF scenario = "vpc_delete" THEN <<"v", "p", "c", "-">> ELSE <<"s", "u", "b", "n", "e", "t", "-">>
        path     == IF scenario = "vpc_delete" THEN <<"/", "c", "l", "o", "u", "d", "/", "v", "p", "c", "/">> ELSE <<"/", "c", "l", "o", "u", "d", "/", "s", "u", "b", "n", "e", "t", "/">>
        supplied == option_id.some /\ option_id.v # <<>>
        wellformed == supplied /\ StartsWith(option_id.v, prefix)
    IN  /\ ~wellformed => deletes = <<>>
        /\ \A i \in 1..Len(deletes) : deletes[i] = path \o option_id.v

\* C30: across runs of one wrapper, the name of index i of one run equals the
\* name of index j of another run exactly when i = j and the two runs started
\* in the same second (computed the same timestamp); the same holds for the
\* stack names, so runs with different timestamps share no name.
C30_NamesAcrossRuns ==
  now.some =>
    LET all == Append(runs, [clock |-> now.v, names |-> names])
    IN  \A r1, r2 \in 1..Len(all) :
          r1 < r2 =>
            /\ \A i \in 1..Len(all[r1].names), j \in 1..Len(all[r2].names) :
                 /\ (all[r1].names[i].name = all[r2].names[j].name)
                       <=> (i = j /\ all[r1].clock = all[r2].clock)
                 /\ (all[r1].names[i].stack = all[r2].names[j].stack)
                       <=> (i = j /\ all[r1].clock = all[r2].clock)
            /\ (Strftime(all[r1].clock) = Strftime(all[r2].clock))
                 <=> (all[r1].clock = all[r2].clock)

\* a run started at 09:05:17 was followed by one started at 09:51:07, each
\* with at least two names
C30_Witness ==
  /\ Len(runs) = 1 /\ now.some
  /\ runs[1].clock.M = 5 /\ runs[1].clock.S = 17
  /\ now.v.M = 51 /\ now.v.S = 7
  /\ Len(runs[1].names) >= 2 /\ Len(names) >= 2

=============================================================================
